---- MODULE Spec2Model ----
(***************************************************************************)
(* State reconciliation and optimistic persistence of src/App.tsx:        *)
(* the structured document parser, the schema normalizer, the macro       *)
(* resolver, the variable store reader and writer, and the feed/profile   *)
(* handlers that mutate the working copies and persist through the writer.*)
(*                                                                         *)
(* Documents are JavaScript values.  A value is a record tagged by t:     *)
(*   undef, null, bool, num, str, arr (v a sequence), obj (v a function   *)
(*   from the keys present to their values).                              *)
(* A fifth outcome, raise, stands for a thrown exception.                 *)
(***************************************************************************)
EXTENDS Integers, Sequences, FiniteSets, TLC

VARIABLES
    mounted,     \* whether the mount effect has run
    store,       \* the external variable store: scope -> document
    env,         \* which host globals exist (Mvu, getVariables, ...)
    data,        \* useState<RootData>: the canonical in-memory model
    feedPosts,   \* useState<FeedPost[]>: working copy of the feed posts
    userPosts,   \* useState<ProfilePost[]>: working copy of the profile posts
    calls,       \* updateStatData executions: their position and event log
    ops,         \* number of handler invocations so far
    lastCall,    \* the updateStatData execution that completed in the last step
    fnIn,        \* input of the pure function under check
    fnOut,       \* its output
    fnPrev,      \* the previous output, when the function is applied again
    fnOp,        \* which function was applied
    userSignature,        \* useState: the signature shown on the profile
    profileFollowed,      \* useState: whether the viewer follows the profile
    profileFollowerCount, \* useState: the follower count shown
    lastEdit,             \* the last profile handler that ran and what it left
    dmMounted,            \* "no": constructed, "yes": effects set up, "gone": torn down
    dmPartner,            \* key of data.direct_message_thread.participants.chat_partner
    dmThread,             \* data.direct_message_thread?.messages
    dmPartnerOverride,    \* useState: key of the partner picked from the friend list
    dmMessages,           \* useState<DMMessage[]>: the active message list
    dmFromThread,         \* whether dmMessages is the very array of dmThread
    cache,                \* the npc_chats object store: key -> messages
    timers,               \* the pending window.setTimeout callbacks
    timer,                \* the timer the current run of the write effect created
    loads,                \* readNpcChat calls in flight, with their cancelled flag
    now,                  \* the clock, in milliseconds
    dmLog,                \* message-list changes, cache reads and cache writes
    dmOps,                \* number of user operations on the conversation so far
    npcStore,             \* the npc_chats object store: key -> NpcChatRecord
    chat,                 \* the open conversation: its key and the useState cells
    pendingOps,           \* cache transactions in flight and the debounce timer
    exportFile,           \* the text of the last exported file
    cacheEvent,           \* the last cache operation that was started or settled
    cacheOps              \* number of user operations on the cache so far

vars ==
    <<mounted, store, env, data, feedPosts, userPosts, calls, ops, lastCall, fnIn, fnOut, fnPrev,
      fnOp, userSignature, profileFollowed, profileFollowerCount, lastEdit, dmMounted, dmPartner, dmThread,
      dmPartnerOverride, dmMessages, dmFromThread, cache, timers, timer, loads, now, dmLog, dmOps,
      npcStore, chat, pendingOps, exportFile, cacheEvent, cacheOps>>
appVars == <<mounted, store, env, data, feedPosts, userPosts, calls, ops, lastCall>>
fnVars == <<fnIn, fnOut, fnPrev, fnOp>>
profileVars == <<userSignature, profileFollowed, profileFollowerCount, lastEdit>>
dmVars ==
    <<dmMounted, dmPartner, dmThread, dmPartnerOverride, dmMessages, dmFromThread, cache, timers,
      timer, loads, now, dmLog, dmOps>>
cacheVars == <<npcStore, chat, pendingOps, exportFile, cacheEvent, cacheOps>>
auxVars == <<profileVars, dmVars, cacheVars>>

---------------------------------------------------------------------------
(* Bounds of the model *)

\* call-stack frames the engine allows before it throws RangeError
StackLimit == 4

\* the delay of the debounced cache write, in milliseconds
DebounceMs == 200

\* the step of the clock, the end of time, and the user operations on the
\* conversation
TickMs == 100
MaxTime == 400
MaxDmOps == 3

\* invocations of the profile handlers
MaxProfileOps == 3

\* user operations on the cache: partner changes, messages, delete, import
\* and export
MaxCacheOps == 3

\* posts of a feed handed to the normalizer
MaxNormPosts == 2

\* handler invocations (clicks) in one behaviour
MaxOps == 2

\* likes of a post handed to the like toggle
MaxLikes == 2

\* elements of an array of the JSON documents that are written and parsed back
MaxJsonWidth == 2

---------------------------------------------------------------------------
(* JavaScript values *)

Undef == [t |-> "undef"]
Null == [t |-> "null"]
Raised == [t |-> "raise"]
\* an index of an array that was never assigned: it reads as undefined and
\* map, filter and forEach pass over it
Hole == [t |-> "hole"]
Bool(b) == [t |-> "bool", v |-> b]
Num(n) == [t |-> "num", v |-> n]
Str(s) == [t |-> "str", v |-> s]
Arr(s) == [t |-> "arr", v |-> s]
Obj(f) == [t |-> "obj", v |-> f]
EmptyObj == Obj(<<>>)
EmptyArr == Arr(<<>>)

\* if (value): JavaScript truthiness
Truthy(x) ==
    CASE x.t \in {"undef", "null", "raise"} -> FALSE
      [] x.t = "bool" -> x.v
      [] x.t = "num" -> x.v # 0
      [] x.t = "str" -> x.v # ""
      [] OTHER -> TRUE

\* a ?? b
Coalesce(x, d) == IF x.t \in {"undef", "null"} THEN d ELSE x

\* 'k' in record
HasKey(x, k) == x.t = "obj" /\ k \in DOMAIN x.v

\* record.k (undefined when the key is missing)
Prop(x, k) == IF HasKey(x, k) THEN x.v[k] ELSE Undef

\* array.length, and array[j] with the 0-based index of the code
Length(x) == IF x.t = "arr" THEN Len(x.v) ELSE 0
At(x, j) ==
    IF x.t = "arr" /\ j + 1 \in DOMAIN x.v /\ x.v[j + 1] # Hole THEN x.v[j + 1] ELSE Undef

\* the segments of a lodash path: a key name, or an array index
K(s) == [k |-> s]
I(n) == [i |-> n]
IsIdx(key) == "i" \in DOMAIN key

Child(x, key) == IF IsIdx(key) THEN At(x, key.i) ELSE Prop(x, key.k)

\* _.get(x, path)
RECURSIVE Get(_, _)
Get(x, p) == IF p = <<>> THEN x ELSE Get(Child(x, Head(p)), Tail(p))

\* x[key] = sub on an object (a key name) or an array (an index; the array
\* grows, leaving holes)
Assign(x, key, sub) ==
    IF x.t = "obj" /\ ~IsIdx(key)
    THEN Obj([q \in DOMAIN x.v \cup {key.k} |-> IF q = key.k THEN sub ELSE x.v[q]])
    ELSE IF x.t = "arr" /\ IsIdx(key)
    THEN Arr([j \in 1..(IF key.i + 1 > Len(x.v) THEN key.i + 1 ELSE Len(x.v)) |->
                IF j = key.i + 1 THEN sub
                ELSE IF j <= Len(x.v) THEN x.v[j] ELSE Hole])
    ELSE x

\* _.set(x, path, val): a missing or non-object step is created, as an
\* array when the next segment is an index and as an object otherwise
RECURSIVE Set(_, _, _)
Set(x, p, val) ==
    IF p = <<>> THEN val
    ELSE LET cur == Child(x, Head(p))
             base == IF cur.t \in {"obj", "arr"} THEN cur
                     ELSE IF Len(p) > 1 /\ IsIdx(p[2]) THEN EmptyArr ELSE EmptyObj
         IN Assign(x, Head(p), IF Len(p) = 1 THEN val ELSE Set(base, Tail(p), val))

\* [...array]: a copy with undefined where the array had a hole
Spread(x) == Arr([j \in DOMAIN x.v |-> IF x.v[j] = Hole THEN Undef ELSE x.v[j]])

\* array.push(item) and array.splice(j, 1)
Push(x, item) == Arr(Append(x.v, item))
Splice1(x, j) ==
    IF j + 1 \in DOMAIN x.v
    THEN Arr([q \in 1..(Len(x.v) - 1) |-> IF q <= j THEN x.v[q] ELSE x.v[q + 1]])
    ELSE x

\* _.cloneDeep(x): an independent copy; the copy of an array has undefined
\* where the array had a hole
RECURSIVE cloneDeep(_)
cloneDeep(x) ==
    CASE x.t = "arr" -> Arr([j \in DOMAIN x.v |-> IF x.v[j] = Hole THEN Undef ELSE cloneDeep(x.v[j])])
      [] x.t = "obj" -> Obj([k \in DOMAIN x.v |-> cloneDeep(x.v[k])])
      [] OTHER -> x

\* Math.max(0, n)
Max0(n) == IF n < 0 THEN 0 ELSE n

\* Number(value ?? 0) for the values a counter holds
NumberOr0(x) == IF x.t = "num" THEN x.v ELSE 0

---------------------------------------------------------------------------
(* Structured document parser (parseYamlSource) *)

\* The outcome of one grammar on one source text.
Fails == [ok |-> FALSE]
Yields(x) == [ok |-> TRUE, val |-> x]

\* The source texts of the model, by name.
TxtPlain == "hello"
TxtYamlFeed == "posts: []"
TxtJsonFeed == "{\"posts\":[]}"
TxtJsonRoot == "{\"echo_chamber_feed\":{\"posts\":[]}}"
TxtQuotedFeed == "\"posts: []\""
TxtQuotedPlain == "\"hello\""
TxtNull == "null"
TxtNumber == "42"
TxtDupKeys == "{\"posts\":[],\"posts\":[]}"
TxtDupKeysComma == "{\"posts\":[],\"posts\":[],}"
TxtTruncated == "{\"posts\":"
TxtYamlSeq == "- a"

Texts ==
    {TxtPlain, TxtYamlFeed, TxtJsonFeed, TxtJsonRoot, TxtQuotedFeed, TxtQuotedPlain,
     TxtNull, TxtNumber, TxtDupKeys, TxtDupKeysComma, TxtTruncated, TxtYamlSeq}

EmptyFeed == Obj([posts |-> EmptyArr])

\* parse() of the yaml package: a plain scalar is a string, a quoted scalar
\* its content, JSON is accepted, a mapping with a repeated key is an error
YamlParse(s) ==
    CASE s = TxtPlain -> Yields(Str(TxtPlain))
      [] s = TxtYamlFeed -> Yields(EmptyFeed)
      [] s = TxtJsonFeed -> Yields(EmptyFeed)
      [] s = TxtJsonRoot -> Yields(Obj([echo_chamber_feed |-> EmptyFeed]))
      [] s = TxtQuotedFeed -> Yields(Str(TxtYamlFeed))
      [] s = TxtQuotedPlain -> Yields(Str(TxtPlain))
      [] s = TxtNull -> Yields(Null)
      [] s = TxtNumber -> Yields(Num(42))
      [] s = TxtYamlSeq -> Yields(Arr(<<Str("a")>>))
      [] OTHER -> Fails

\* JSON.parse: the last of two equal keys wins, a trailing comma is an error
JsonParse(s) ==
    CASE s = TxtJsonFeed -> Yields(EmptyFeed)
      [] s = TxtJsonRoot -> Yields(Obj([echo_chamber_feed |-> EmptyFeed]))
      [] s = TxtQuotedFeed -> Yields(Str(TxtYamlFeed))
      [] s = TxtQuotedPlain -> Yields(Str(TxtPlain))
      [] s = TxtNull -> Yields(Null)
      [] s = TxtNumber -> Yields(Num(42))
      [] s = TxtDupKeys -> Yields(EmptyFeed)
      [] OTHER -> Fails

\* source.replace(/,\s*(\}|\])/g, '$1')
StripTrailingCommas(s) == IF s = TxtDupKeysComma THEN TxtDupKeys ELSE s

\* the grammars in the order parseYamlSource tries them
GrammarOrder_jsonFirst == <<"json", "yaml", "relaxed">>
GrammarOrder == <<"yaml", "json", "relaxed">>

\* the three try blocks: the grammars are tried until one succeeds, its
\* result ?? {} is returned; {} when all of them throw
RECURSIVE TryGrammars(_, _, _)
TryGrammars(outcomes, order, j) ==
    IF j > Len(order) THEN [val |-> EmptyObj, tried |-> order, failed |-> TRUE]
    ELSE IF outcomes[order[j]].ok
         THEN [val |-> Coalesce(outcomes[order[j]].val, EmptyObj),
               tried |-> SubSeq(order, 1, j), failed |-> FALSE]
         ELSE TryGrammars(outcomes, order, j + 1)

\* what each grammar makes of a source text
Outcomes(source) ==
    [yaml |-> YamlParse(source), json |-> JsonParse(source),
     relaxed |-> JsonParse(StripTrailingCommas(source))]

\* parseYamlSource with the grammars it tried
ParseTrace(source) == TryGrammars(Outcomes(source), GrammarOrder, 1)

parseYamlSource(source) == ParseTrace(source).val

---------------------------------------------------------------------------
(* JSON texts as token lists: JSON.stringify, JSON.parse and the flow      *)
(* grammar of the yaml package on them                                     *)

Punct(c) == [p |-> c]
Lit(x) == [lit |-> x]
IsPunct(tok, c) == "p" \in DOMAIN tok /\ tok.p = c
IsLit(tok) == "lit" \in DOMAIN tok

\* the keys of an object in the order they are enumerated
RECURSIVE KeysOf(_)
KeysOf(S) == IF S = {} THEN <<>> ELSE LET k == CHOOSE k \in S : TRUE IN <<k>> \o KeysOf(S \ {k})

RECURSIVE Joined(_)
Joined(parts) ==
    IF parts = <<>> THEN <<>>
    ELSE IF Len(parts) = 1 THEN parts[1]
    ELSE parts[1] \o <<Punct(",")>> \o Joined(Tail(parts))

\* JSON.stringify(value): undefined members are left out, undefined and
\* missing elements are written as null
RECURSIVE JsonStringify(_)
JsonStringify(value) ==
    CASE value.t = "arr" ->
            <<Punct("[")>>
                \o Joined([j \in DOMAIN value.v |->
                              IF value.v[j].t \in {"undef", "hole"} THEN <<Lit(Null)>>
                              ELSE JsonStringify(value.v[j])])
                \o <<Punct("]")>>
      [] value.t = "obj" ->
            LET keys == KeysOf({k \in DOMAIN value.v : value.v[k] # Undef}) IN
            <<Punct("{")>>
                \o Joined([j \in DOMAIN keys |->
                              <<Lit(Str(keys[j])), Punct(":")>> \o JsonStringify(value.v[keys[j]])])
                \o <<Punct("}")>>
      [] OTHER -> <<Lit(value)>>

\* one more member of an object under construction; a later member with
\* the same key replaces the earlier one
WithMember(f, key, val) == [k \in DOMAIN f \cup {key} |-> IF k = key THEN val ELSE f[k]]

NoParse == [ok |-> FALSE, val |-> Undef, next |-> 0]

\* a recursive-descent parser of the token list from position pos; grammar
\* "json" rejects a comma before a closing bracket and keeps the last of two
\* equal keys, grammar "yaml" accepts the comma and rejects equal keys
RECURSIVE ParseValue(_, _, _)
RECURSIVE ParseElements(_, _, _, _)
RECURSIVE ParseMembers(_, _, _, _)

ParseElements(grammar, toks, pos, acc) ==
    LET r == ParseValue(grammar, toks, pos) IN
    IF ~r.ok \/ r.next > Len(toks) THEN NoParse
    ELSE IF IsPunct(toks[r.next], "]")
         THEN [ok |-> TRUE, val |-> Arr(Append(acc, r.val)), next |-> r.next + 1]
    ELSE IF ~IsPunct(toks[r.next], ",") \/ r.next + 1 > Len(toks) THEN NoParse
    ELSE IF grammar = "yaml" /\ IsPunct(toks[r.next + 1], "]")
         THEN [ok |-> TRUE, val |-> Arr(Append(acc, r.val)), next |-> r.next + 2]
    ELSE ParseElements(grammar, toks, r.next + 1, Append(acc, r.val))

ParseMembers(grammar, toks, pos, acc) ==
    IF pos + 2 > Len(toks) THEN NoParse
    ELSE IF ~(IsLit(toks[pos]) /\ toks[pos].lit.t = "str" /\ IsPunct(toks[pos + 1], ":"))
         THEN NoParse
    ELSE IF grammar = "yaml" /\ toks[pos].lit.v \in DOMAIN acc THEN NoParse
    ELSE
        LET r == ParseValue(grammar, toks, pos + 2)
            members == WithMember(acc, toks[pos].lit.v, r.val)
        IN
        IF ~r.ok \/ r.next > Len(toks) THEN NoParse
        ELSE IF IsPunct(toks[r.next], "}")
             THEN [ok |-> TRUE, val |-> Obj(members), next |-> r.next + 1]
        ELSE IF ~IsPunct(toks[r.next], ",") \/ r.next + 1 > Len(toks) THEN NoParse
        ELSE IF grammar = "yaml" /\ IsPunct(toks[r.next + 1], "}")
             THEN [ok |-> TRUE, val |-> Obj(members), next |-> r.next + 2]
        ELSE ParseMembers(grammar, toks, r.next + 1, members)

ParseValue(grammar, toks, pos) ==
    IF pos > Len(toks) THEN NoParse
    ELSE IF IsLit(toks[pos]) THEN [ok |-> TRUE, val |-> toks[pos].lit, next |-> pos + 1]
    ELSE IF IsPunct(toks[pos], "[")
         THEN IF pos + 1 <= Len(toks) /\ IsPunct(toks[pos + 1], "]")
              THEN [ok |-> TRUE, val |-> EmptyArr, next |-> pos + 2]
              ELSE ParseElements(grammar, toks, pos + 1, <<>>)
    ELSE IF IsPunct(toks[pos], "{")
         THEN IF pos + 1 <= Len(toks) /\ IsPunct(toks[pos + 1], "}")
              THEN [ok |-> TRUE, val |-> EmptyObj, next |-> pos + 2]
              ELSE ParseMembers(grammar, toks, pos + 1, <<>>)
    ELSE NoParse

\* the whole text is one value
ParseTokens(grammar, toks) ==
    LET r == ParseValue(grammar, toks, 1) IN
    IF r.ok /\ r.next = Len(toks) + 1 THEN Yields(r.val) ELSE Fails

\* source.replace(/,\s*(\}|\])/g, '$1') on a token list
RECURSIVE StripTrailingCommaTokens(_)
StripTrailingCommaTokens(toks) ==
    IF Len(toks) < 2 THEN toks
    ELSE IF IsPunct(toks[1], ",") /\ (IsPunct(toks[2], "}") \/ IsPunct(toks[2], "]"))
         THEN StripTrailingCommaTokens(Tail(toks))
    ELSE <<toks[1]>> \o StripTrailingCommaTokens(Tail(toks))

TokenOutcomes(toks) ==
    [yaml |-> ParseTokens("yaml", toks), json |-> ParseTokens("json", toks),
     relaxed |-> ParseTokens("json", StripTrailingCommaTokens(toks))]

\* parseYamlSource of a text given as a token list
TokenTrace(toks) == TryGrammars(TokenOutcomes(toks), GrammarOrder, 1)
parseYamlSourceTokens(toks) == TokenTrace(toks).val

---------------------------------------------------------------------------
(* Macro resolver (resolveMacroString, resolveMacrosDeep) *)

TxtMacro == "{{user}}"
TxtMacroValue == "Bob"

\* substitudeMacros of the host, when it exists and does not throw
substitudeMacros(s) == IF s = TxtMacro THEN TxtMacroValue ELSE s

\* a text substitudeMacros throws on even when it works for the others
TxtMacroBad == "{{bad}}"
MacroThrows(s, macros) == macros = "throws" \/ s = TxtMacroBad

\* resolveMacroString returning the empty string from its catch block
resolveMacroString_clearOnThrow(value, macros) ==
    IF macros = "absent" THEN value
    ELSE IF MacroThrows(value, macros) THEN ""
    ELSE substitudeMacros(value)

\* macros: "ok" (the function exists), "absent", "throws" (it throws on
\* every text)
resolveMacroString(value, macros) ==
    IF macros = "absent" THEN value
    ELSE IF MacroThrows(value, macros) THEN value
    ELSE substitudeMacros(value)

RECURSIVE resolveMacrosDeep(_, _)
resolveMacrosDeep(value, macros) ==
    CASE value.t = "str" -> Str(resolveMacroString(value.v, macros))
      [] value.t = "arr" -> Arr([j \in DOMAIN value.v |-> resolveMacrosDeep(value.v[j], macros)])
      [] value.t = "obj" -> Obj([k \in DOMAIN value.v |-> resolveMacrosDeep(value.v[k], macros)])
      [] OTHER -> value

---------------------------------------------------------------------------
(* Schema normalizer *)

\* normalizePost copying the alternate field whenever it is present, over an
\* existing people_comments
normalizePost_overwrite(post) ==
    IF post.t \in {"undef", "null"} THEN Raised
    ELSE IF Truthy(Prop(post, "People_comments"))
    THEN Assign(post, K("people_comments"), Prop(post, "People_comments"))
    ELSE post

\* normalizePost merging the alternate field into people_comments
normalizePost_merge(post) ==
    IF post.t \in {"undef", "null"} THEN Raised
    ELSE IF Truthy(Prop(post, "People_comments"))
    THEN Assign(post, K("people_comments"),
                Arr(Coalesce(Prop(post, "people_comments"), EmptyArr).v
                        \o Prop(post, "People_comments").v))
    ELSE post

\* the body of feed.posts.map in normalizeEchoChamberFeed; a post that is
\* null or undefined throws on the property read
normalizePost(post) ==
    IF post.t \in {"undef", "null"} THEN Raised
    ELSE IF ~Truthy(Prop(post, "people_comments")) /\ Truthy(Prop(post, "People_comments"))
    THEN Assign(post, K("people_comments"), Prop(post, "People_comments"))
    ELSE post

normalizeEchoChamberFeed(feed) ==
    LET posts == Prop(feed, "posts") IN
    IF ~Truthy(posts) THEN feed
    ELSE IF posts.t # "arr" THEN Raised
    ELSE IF \E j \in DOMAIN posts.v : posts.v[j] # Hole /\ normalizePost(posts.v[j]) = Raised
    THEN Raised
    ELSE Assign(feed, K("posts"),
                Arr([j \in DOMAIN posts.v |->
                        IF posts.v[j] = Hole THEN Hole ELSE normalizePost(posts.v[j])]))

isRootData(value) ==
    /\ value.t \in {"obj", "arr"}
    /\ \/ HasKey(value, "echo_chamber_feed")
       \/ HasKey(value, "user_profile_page")
       \/ HasKey(value, "direct_message_thread")

isEchoChamberFeed(value) ==
    /\ value.t \in {"obj", "arr"}
    /\ (HasKey(value, "viewer_profile") \/ HasKey(value, "posts"))

coerceEchoChamberFeed(value) ==
    IF ~Truthy(value) THEN Null
    ELSE IF value.t = "str"
    THEN LET parsed == parseYamlSource(value.v) IN
         IF isRootData(parsed) THEN Coalesce(Prop(parsed, "echo_chamber_feed"), Null)
         ELSE IF isEchoChamberFeed(parsed) THEN parsed
         ELSE Null
    ELSE IF value.t \in {"obj", "arr"} /\ isEchoChamberFeed(value) THEN value
    ELSE Null

\* the branch of coerceRootData for a value that passed isRootData
RootOf(record) ==
    Obj([echo_chamber_feed |->
             Coalesce(coerceEchoChamberFeed(Prop(record, "echo_chamber_feed")),
                      Prop(record, "echo_chamber_feed")),
         user_profile_page |-> Prop(record, "user_profile_page"),
         direct_message_thread |-> Prop(record, "direct_message_thread")])

\* coerceRootData returning whatever the wrapper coerces to, null included
RECURSIVE CoerceRootDataAt_strict(_, _)
CoerceRootDataAt_strict(value, depth) ==
    IF depth > StackLimit THEN Raised
    ELSE IF ~Truthy(value) THEN Null
    ELSE IF value.t = "str" THEN CoerceRootDataAt_strict(parseYamlSource(value.v), depth + 1)
    ELSE IF value.t \in {"obj", "arr"}
    THEN IF isRootData(value) THEN RootOf(value)
         ELSE IF Truthy(Prop(value, "echo_chamber"))
         THEN CoerceRootDataAt_strict(Prop(value, "echo_chamber"), depth + 1)
         ELSE IF isEchoChamberFeed(value) THEN Obj([echo_chamber_feed |-> value])
         ELSE Null
    ELSE Null

\* coerceRootData at call depth `depth`: the engine throws RangeError when
\* the call stack exceeds StackLimit frames
RECURSIVE CoerceRootDataAt(_, _)
CoerceRootDataAt(value, depth) ==
    IF depth > StackLimit THEN Raised
    ELSE IF ~Truthy(value) THEN Null
    ELSE IF value.t = "str" THEN CoerceRootDataAt(parseYamlSource(value.v), depth + 1)
    ELSE IF value.t \in {"obj", "arr"}
    THEN IF isRootData(value) THEN RootOf(value)
         ELSE LET nested == IF Truthy(Prop(value, "echo_chamber"))
                            THEN CoerceRootDataAt(Prop(value, "echo_chamber"), depth + 1)
                            ELSE Null
              IN IF nested = Raised THEN Raised
                 ELSE IF Truthy(nested) THEN nested
                 ELSE IF isEchoChamberFeed(value) THEN Obj([echo_chamber_feed |-> value])
                 ELSE Null
    ELSE Null

coerceRootData(value) == CoerceRootDataAt(value, 0)

---------------------------------------------------------------------------
(* Variable store reader (readEchoChamberVariables) *)

Scopes == {"message", "chat", "character", "global"}

\* a feed found on its own is wrapped as a root
FeedAsRoot(feed) == IF Truthy(feed) THEN Obj([echo_chamber_feed |-> feed]) ELSE Null

\* the probes of a try block in order: the first truthy one is returned; a
\* probe that throws ends the block in its catch and nothing is returned
RECURSIVE FirstHit(_)
FirstHit(probes) ==
    IF probes = <<>> \/ Head(probes) = Raised THEN Null
    ELSE IF Truthy(Head(probes)) THEN Head(probes)
    ELSE FirstHit(Tail(probes))

\* stat_data.echo_chamber ?? stat_data, coerced to a root
StatRoot(statData) ==
    coerceRootData(Coalesce(Get(statData, <<K("echo_chamber")>>), statData))

\* the five probes of one scope document; an exception in a probe is caught
\* by the scope's try block and the scope is a miss
ProbeScope(scopeVars) ==
    FirstHit(<<StatRoot(Get(scopeVars, <<K("stat_data")>>)),
               FeedAsRoot(coerceEchoChamberFeed(
                   Get(scopeVars, <<K("stat_data"), K("echo_chamber_feed")>>))),
               coerceRootData(scopeVars),
               coerceRootData(Get(scopeVars, <<K("echo_chamber")>>)),
               FeedAsRoot(coerceEchoChamberFeed(Get(scopeVars, <<K("echo_chamber_feed")>>)))>>)

\* the scopes the generic backend is asked for, in order
ScopeOrder == IF env.msgId THEN <<"message", "chat", "character", "global">>
              ELSE <<"chat", "character", "global">>

\* the loop of the generic backend returning the last scope that yields a
\* model, every scope being read
RECURSIVE ReadScopes_lastWins(_, _, _)
ReadScopes_lastWins(st, order, bad) ==
    IF order = <<>> THEN Null
    ELSE Coalesce(ReadScopes_lastWins(st, Tail(order), bad),
                  IF Head(order) \in bad THEN Null ELSE ProbeScope(st[Head(order)]))

\* for (const scope of scopes): the first scope with a non-null probe wins;
\* `bad` holds the accesses that throw in this read
RECURSIVE ReadScopes(_, _, _)
ReadScopes(st, order, bad) ==
    IF order = <<>> THEN Null
    ELSE Coalesce(IF Head(order) \in bad THEN Null ELSE ProbeScope(st[Head(order)]),
                  ReadScopes(st, Tail(order), bad))

\* the scopes getVariables is called for by the loop, in call order: the loop
\* ends at the first scope whose probes return a model
RECURSIVE ScopesConsulted(_, _, _)
ScopesConsulted(st, order, bad) ==
    IF order = <<>> THEN <<>>
    ELSE IF Head(order) \notin bad /\ Truthy(ProbeScope(st[Head(order)])) THEN <<Head(order)>>
    ELSE <<Head(order)>> \o ScopesConsulted(st, Tail(order), bad)

\* the structured backend is read when Mvu and getCurrentMessageId exist
MvuReadable == env.mvu /\ env.msgId

\* the structured backend's message document, stat_data.echo_chamber ?? stat_data;
\* getCurrentMessageId() or getMvuData throwing is caught by the try block
ReadMvu(st, bad) ==
    IF MvuReadable /\ "mvu" \notin bad /\ "msgId" \notin bad
    THEN FirstHit(<<StatRoot(Get(st["message"], <<K("stat_data")>>))>>)
    ELSE Null

\* scopes.push({ type: 'message', message_id: getCurrentMessageId() }) is
\* outside the try blocks: when the call throws, the reader throws
ScopesThrow(bad) == env.msgId /\ "msgId" \in bad

\* the generic backend: the scope list, then the loop
ReadGeneric(st, bad) ==
    IF ~env.gen THEN Null
    ELSE IF ScopesThrow(bad) THEN Raised
    ELSE ReadScopes(st, ScopeOrder, bad)

\* the getVariables calls of one readEchoChamberVariables()
GenericConsulted(st, bad) ==
    IF Truthy(ReadMvu(st, bad)) \/ ~env.gen \/ ScopesThrow(bad) THEN <<>>
    ELSE ScopesConsulted(st, ScopeOrder, bad)

\* the reader asking the generic backend first
readEchoChamberVariables_genericFirst(st, bad) ==
    Coalesce(ReadGeneric(st, bad), ReadMvu(st, bad))

readEchoChamberVariables(st, bad) == Coalesce(ReadMvu(st, bad), ReadGeneric(st, bad))

---------------------------------------------------------------------------
(* refreshData and the effects that reset the working copies *)

\* a dependency of an effect changed (Object.is): objects are rebuilt by
\* every refresh, primitives compare by value
DepChanged(old, new) == old.t \in {"obj", "arr"} \/ new.t \in {"obj", "arr"} \/ old # new

\* the state of the component: the store it talks to and its useState cells
Machine(st, d, fp, up) == [store |-> st, data |-> d, feedPosts |-> fp, userPosts |-> up]

\* setData merging the new model into the one held: a field the new model
\* does not define keeps its previous value
SetData_merge(m, next) ==
    [m EXCEPT
        !.data = Obj([k \in {j \in DOMAIN m.data.v : HasKey(m.data, j)} \cup DOMAIN next.v |->
                         IF Prop(next, k) # Undef THEN Prop(next, k) ELSE Prop(m.data, k)]),
        !.feedPosts = Coalesce(Get(next, <<K("echo_chamber_feed"), K("posts")>>), EmptyArr),
        !.userPosts = Coalesce(Get(next, <<K("user_profile_page"), K("posts")>>), EmptyArr)]

\* setData(next), then the effects on data.echo_chamber_feed and
\* data.user_profile_page
SetData(m, next) ==
    [m EXCEPT
        !.data = next,
        !.feedPosts =
            IF DepChanged(Prop(m.data, "echo_chamber_feed"), Prop(next, "echo_chamber_feed"))
            THEN Coalesce(Get(next, <<K("echo_chamber_feed"), K("posts")>>), EmptyArr)
            ELSE m.feedPosts,
        !.userPosts =
            IF DepChanged(Prop(m.data, "user_profile_page"), Prop(next, "user_profile_page"))
            THEN Coalesce(Get(next, <<K("user_profile_page"), K("posts")>>), EmptyArr)
            ELSE m.userPosts]

\* { ...resolved, echo_chamber_feed: normalized }, or the exception of the
\* normalizer
WithFeed(resolved, normalized) ==
    IF normalized = Raised THEN Raised
    ELSE Assign(resolved, K("echo_chamber_feed"), normalized)

\* the model refreshData hands to setData
NextData(resolved) ==
    IF Truthy(Prop(resolved, "echo_chamber_feed"))
    THEN WithFeed(resolved, normalizeEchoChamberFeed(Prop(resolved, "echo_chamber_feed")))
    ELSE resolved

\* the outcome of a refreshData whose model is `next`
Committed(m, next) ==
    IF next = Raised THEN [m |-> m, raised |-> TRUE, read |-> TRUE]
    ELSE [m |-> SetData(m, next), raised |-> FALSE, read |-> TRUE]

\* refreshData replacing the model by an empty one when the reader returns null
RefreshWith_clearOnNull(m, variableData) ==
    IF variableData = Raised THEN [m |-> m, raised |-> TRUE, read |-> FALSE]
    ELSE IF ~Truthy(variableData) THEN [m |-> SetData(m, EmptyObj), raised |-> FALSE, read |-> FALSE]
    ELSE Committed(m, NextData(resolveMacrosDeep(variableData, env.macros)))

\* the outcome of a refreshData whose read returned variableData, or threw
RefreshWith(m, variableData) ==
    IF variableData = Raised THEN [m |-> m, raised |-> TRUE, read |-> FALSE]
    ELSE IF ~Truthy(variableData) THEN [m |-> m, raised |-> FALSE, read |-> FALSE]
    ELSE Committed(m, NextData(resolveMacrosDeep(variableData, env.macros)))

\* refreshData: [m: the state after it, raised: whether it threw, read:
\* whether the reader returned a model]
refreshData(m, bad) == RefreshWith(m, readEchoChamberVariables(m.store, bad))

---------------------------------------------------------------------------
(* The feed and profile handlers: the optimistic update of the working    *)
(* copy (the setState updater) and the mutator handed to updateStatData   *)

DefaultViewer ==
    Obj([name |-> Str("Guest"), avatar_char |-> Str("G"), user_handle |-> Str("@user"),
         posts_count |-> Num(0), followers_count |-> Num(0), following_count |-> Num(0)])

\* feedData.viewer_profile ?? the built-in viewer
feedViewer(d) ==
    Coalesce(Prop(Coalesce(Prop(d, "echo_chamber_feed"), EmptyObj), "viewer_profile"),
             DefaultViewer)

\* getInitialChar(value, ''): the first character of the trimmed name
getInitialChar(value) ==
    CASE value.t # "str" -> Str("")
      [] value.v = "Guest" -> Str("G")
      [] OTHER -> value

ViewerAvatar(d) ==
    Coalesce(Prop(feedViewer(d), "avatar_char"), getInitialChar(Prop(feedViewer(d), "name")))

\* the reply and the comment handleFeedReplySend builds; target -1 is 'post'
MakeReply(d, post, target, content) ==
    Obj([from |-> Prop(feedViewer(d), "name"),
         to |-> IF target # -1
                THEN Prop(At(Coalesce(Prop(post, "people_comments"), EmptyArr), target), "author")
                ELSE Get(post, <<K("user"), K("name")>>),
         avatar |-> ViewerAvatar(d),
         text |-> Str(content)])

MakeComment(d, content) ==
    Obj([author |-> Prop(feedViewer(d), "name"),
         handle |-> Prop(feedViewer(d), "user_handle"),
         avatar |-> ViewerAvatar(d),
         text |-> Str(content),
         replies |-> EmptyArr])

\* prev.map((item, idx) => idx !== index ? item : f(item))
MapAt(arr, index, updated) ==
    Arr([j \in DOMAIN arr.v |-> IF j - 1 = index THEN updated ELSE arr.v[j]])

\* array.filter((_, idx) => idx !== index)
FilterOut(arr, index) ==
    LET kept == {j \in DOMAIN arr.v : j - 1 # index /\ arr.v[j] # Hole}
        \* the j-th smallest index kept
        Nth(j) == CHOOSE q \in kept : Cardinality({w \in kept : w < q}) = j - 1
    IN Arr([j \in 1..Cardinality(kept) |-> arr.v[Nth(j)]])

\* the working copy's stats without Math.max(0, ...)
ToggleWorkingStats_noclamp(stats) ==
    LET isLiked == Coalesce(Prop(stats, "is_liked_by_viewer"), Bool(FALSE))
        likes == Coalesce(Prop(stats, "likes"), Num(0))
    IN Assign(Assign(stats, K("is_liked_by_viewer"), Bool(~Truthy(isLiked))),
              K("likes"), Num(IF Truthy(isLiked) THEN likes.v - 1 ELSE likes.v + 1))

\* the stats a like toggle leaves in the working copy
ToggleWorkingStats(stats) ==
    LET isLiked == Coalesce(Prop(stats, "is_liked_by_viewer"), Bool(FALSE))
        likes == Coalesce(Prop(stats, "likes"), Num(0))
    IN Assign(Assign(stats, K("is_liked_by_viewer"), Bool(~Truthy(isLiked))),
              K("likes"), Num(Max0(IF Truthy(isLiked) THEN likes.v - 1 ELSE likes.v + 1)))

\* toggleFeedLike, toggleUserLike, toggleProfileLike: the setState updater
ToggleWorking(posts, index) ==
    MapAt(posts, index,
          Assign(At(posts, index), K("stats"), ToggleWorkingStats(Prop(At(posts, index), "stats"))))

\* the mutator's stats without Math.max(0, ...)
ToggleStoredStats_noclamp(stats) ==
    LET isLiked == Truthy(Prop(stats, "is_liked_by_viewer"))
        likes == NumberOr0(Coalesce(Prop(stats, "likes"), Num(0)))
    IN Assign(Assign(stats, K("is_liked_by_viewer"), Bool(~isLiked)),
              K("likes"), Num(IF isLiked THEN likes - 1 ELSE likes + 1))

\* the same, as the mutator writes it back under `path`
ToggleStoredStats(stats) ==
    LET isLiked == Truthy(Prop(stats, "is_liked_by_viewer"))
        likes == NumberOr0(Coalesce(Prop(stats, "likes"), Num(0)))
    IN Assign(Assign(stats, K("is_liked_by_viewer"), Bool(~isLiked)),
              K("likes"), Num(Max0(IF isLiked THEN likes - 1 ELSE likes + 1)))

ApplyToggle(statData, path) ==
    Set(statData, path, ToggleStoredStats(Coalesce(Get(statData, path), EmptyObj)))

StatsPath(view, index) == <<K(view), K("posts"), I(index), K("stats")>>
BasePath(postIndex) == <<K("echo_chamber_feed"), K("posts"), I(postIndex)>>
CommentsCountPath(postIndex) == BasePath(postIndex) \o <<K("stats"), K("comments")>>

\* item.stats.comments ?? 0
WorkingComments(item) == Coalesce(Get(item, <<K("stats"), K("comments")>>), Num(0)).v

\* { ...item, stats: { ...item.stats, comments: n } }
WithComments(item, n) ==
    Assign(item, K("stats"), Assign(Prop(item, "stats"), K("comments"), Num(n)))

\* handleFeedReplySend: the setState updater
SendWorking(posts, postIndex, target, reply, newComment) ==
    LET item == At(posts, postIndex)
        comments == Coalesce(Prop(item, "people_comments"), EmptyArr)
        nextComments ==
            IF target # -1
            THEN MapAt(comments, target,
                       Assign(At(comments, target), K("replies"),
                              Push(Spread(Coalesce(Prop(At(comments, target), "replies"),
                                                   EmptyArr)),
                                   reply)))
            ELSE Push(Spread(comments), newComment)
    IN MapAt(posts, postIndex,
             WithComments(Assign(item, K("people_comments"), nextComments),
                          WorkingComments(item) + 1))

\* the mutator putting a new comment in front of the stored ones
ApplySend_unshift(statData, postIndex, target, reply, newComment) ==
    LET commentsPath == BasePath(postIndex) \o <<K("people_comments")>>
        repliesPath == commentsPath \o <<I(target), K("replies")>>
        written ==
            IF target = -1
            THEN Set(statData, commentsPath,
                     Arr(<<newComment>> \o Coalesce(Get(statData, commentsPath), EmptyArr).v))
            ELSE Set(statData, repliesPath,
                     Push(Coalesce(Get(statData, repliesPath), EmptyArr), reply))
    IN Set(written, CommentsCountPath(postIndex),
           Num(NumberOr0(Coalesce(Get(written, CommentsCountPath(postIndex)), Num(0))) + 1))

\* handleFeedReplySend: the mutator
ApplySend(statData, postIndex, target, reply, newComment) ==
    LET commentsPath == BasePath(postIndex) \o <<K("people_comments")>>
        repliesPath == commentsPath \o <<I(target), K("replies")>>
        written ==
            IF target = -1
            THEN Set(statData, commentsPath,
                     Push(Coalesce(Get(statData, commentsPath), EmptyArr), newComment))
            ELSE Set(statData, repliesPath,
                     Push(Coalesce(Get(statData, repliesPath), EmptyArr), reply))
    IN Set(written, CommentsCountPath(postIndex),
           Num(NumberOr0(Coalesce(Get(written, CommentsCountPath(postIndex)), Num(0))) + 1))

\* the updater counting one comment less whatever replies the comment had
DeleteCommentWorking_countOne(posts, postIndex, commentIndex, removedCount) ==
    LET item == At(posts, postIndex)
        nextComments == FilterOut(Coalesce(Prop(item, "people_comments"), EmptyArr), commentIndex)
    IN MapAt(posts, postIndex,
             WithComments(Assign(item, K("people_comments"), nextComments),
                          Max0(WorkingComments(item) - 1)))

\* handleDeleteFeedComment: the setState updater and the mutator
DeleteCommentWorking(posts, postIndex, commentIndex, removedCount) ==
    LET item == At(posts, postIndex)
        nextComments == FilterOut(Coalesce(Prop(item, "people_comments"), EmptyArr), commentIndex)
    IN MapAt(posts, postIndex,
             WithComments(Assign(item, K("people_comments"), nextComments),
                          Max0(WorkingComments(item) - removedCount)))

ApplyDeleteComment(statData, postIndex, commentIndex, removedCount) ==
    LET commentsPath == BasePath(postIndex) \o <<K("people_comments")>>
        written == Set(statData, commentsPath,
                       Splice1(Coalesce(Get(statData, commentsPath), EmptyArr), commentIndex))
    IN Set(written, CommentsCountPath(postIndex),
           Num(Max0(NumberOr0(Coalesce(Get(written, CommentsCountPath(postIndex)), Num(0)))
                        - removedCount)))

\* handleDeleteFeedReply: the setState updater and the mutator
DeleteReplyWorking(posts, postIndex, commentIndex, replyIndex) ==
    LET item == At(posts, postIndex)
        comments == Coalesce(Prop(item, "people_comments"), EmptyArr)
        nextComments ==
            MapAt(comments, commentIndex,
                  Assign(At(comments, commentIndex), K("replies"),
                         FilterOut(Coalesce(Prop(At(comments, commentIndex), "replies"), EmptyArr),
                                   replyIndex)))
    IN MapAt(posts, postIndex,
             WithComments(Assign(item, K("people_comments"), nextComments),
                          Max0(WorkingComments(item) - 1)))

ApplyDeleteReply(statData, postIndex, commentIndex, replyIndex) ==
    LET repliesPath == BasePath(postIndex) \o <<K("people_comments"), I(commentIndex), K("replies")>>
        written == Set(statData, repliesPath,
                       Splice1(Coalesce(Get(statData, repliesPath), EmptyArr), replyIndex))
    IN Set(written, CommentsCountPath(postIndex),
           Num(Max0(NumberOr0(Coalesce(Get(written, CommentsCountPath(postIndex)), Num(0))) - 1)))

\* apply(statData) for the mutator a handler passed to updateStatData
Apply(mut, statData) ==
    CASE mut.kind = "like" -> ApplyToggle(statData, mut.path)
      [] mut.kind = "send" ->
            ApplySend(statData, mut.postIndex, mut.target, mut.newReply, mut.newComment)
      [] mut.kind = "deleteComment" ->
            ApplyDeleteComment(statData, mut.postIndex, mut.commentIndex, mut.removedCount)
      [] mut.kind = "deleteReply" ->
            ApplyDeleteReply(statData, mut.postIndex, mut.commentIndex, mut.replyIndex)

---------------------------------------------------------------------------
(* Variable store writer (updateStatData) *)

\* updateWithVars: the document to write back
updateWithVars(scopeVars, mut) ==
    LET next == cloneDeep(Coalesce(scopeVars, EmptyObj))
        statData == Coalesce(Get(next, <<K("stat_data")>>), EmptyObj)
    IN Set(next, <<K("stat_data")>>, Apply(mut, statData))

\* updateWithVars without _.cloneDeep: apply and _.set work on the object the
\* backend returned, which is then the mutated document
LiveDocument_shared(scopeVars, mut) ==
    IF scopeVars.t \in {"undef", "null"} THEN scopeVars
    ELSE Set(scopeVars, <<K("stat_data")>>,
             Apply(mut, Coalesce(Get(scopeVars, <<K("stat_data")>>), EmptyObj)))

\* the object the backend's read returned, after updateWithVars ran on it:
\* apply and _.set work on the deep clone, the backend's object is as it was
LiveDocument(scopeVars, mut) == scopeVars

\* the outcomes of the backend calls of one step: TRUE when the call succeeds;
\* msgId is getCurrentMessageId() while the option is built
AllFine ==
    [msgId |-> TRUE, mvuRead |-> TRUE, mvuWrite |-> TRUE, genRead |-> TRUE, genWrite |-> TRUE]

\* the outcomes that matter up to replaceMvuData, and when it settles
StartFaults ==
    {AllFine,
     [AllFine EXCEPT !.msgId = FALSE],
     [AllFine EXCEPT !.mvuRead = FALSE],
     [AllFine EXCEPT !.mvuRead = FALSE, !.genRead = FALSE],
     [AllFine EXCEPT !.mvuRead = FALSE, !.genWrite = FALSE]}
SettleFaults ==
    {AllFine,
     [AllFine EXCEPT !.mvuWrite = FALSE],
     [AllFine EXCEPT !.mvuWrite = FALSE, !.genRead = FALSE],
     [AllFine EXCEPT !.mvuWrite = FALSE, !.genWrite = FALSE]}

\* an execution of updateStatData: the mutator, where it stands, the
\* document its replaceMvuData is writing, the document it last wrote, the
\* backend calls it made
NewCall(id, mut, from) ==
    [id |-> id, mut |-> mut, from |-> from, pc |-> "wait", next |-> Undef, wrote |-> Undef,
     log |-> <<>>, read |-> FALSE, rejected |-> FALSE]
Logged(c, events) == [c EXCEPT !.log = c.log \o events]
Finished(c) == [c EXCEPT !.pc = "done", !.next = Undef]

\* the option is built outside every try block: when getCurrentMessageId()
\* throws there, the promise of updateStatData is rejected
Rejected(c) == [Finished(c) EXCEPT !.rejected = TRUE]
OptionThrows(f) == env.msgId /\ ~f.msgId

\* the document is written to the message scope (getCurrentMessageId() or 'latest')
Written(m, doc) == [m EXCEPT !.store = [m.store EXCEPT !["message"] = doc]]

\* the execution after its refresh() returned or threw
AfterRefresh(c, r) ==
    [m |-> r.m,
     c |-> [Logged(c, IF r.raised THEN <<"refresh", "refresh_raised">> ELSE <<"refresh">>)
                EXCEPT !.read = r.read],
     raised |-> r.raised]

\* refresh() after a successful write of `doc`; the result is the pair of
\* the state and the execution
RefreshAfter(m, c, doc) ==
    AfterRefresh([c EXCEPT !.wrote = doc], refreshData(Written(m, doc), {}))

\* the end of updateStatData
Return(r) == [m |-> r.m, c |-> Finished(r.c)]

\* the third try block calling refresh() in its catch as well
GenericPath_refreshInCatch(m, c, f) ==
    IF ~env.gen THEN [m |-> m, c |-> Finished(c)]
    ELSE IF ~f.genRead THEN [m |-> m, c |-> Finished(Logged(c, <<"gen_read_fail">>))]
    ELSE IF ~f.genWrite
    THEN [m |-> refreshData(m, {}).m,
          c |-> Finished(Logged(c, <<"gen_read", "gen_write_fail", "refresh">>))]
    ELSE Return(RefreshAfter(m, Logged(c, <<"gen_read", "gen_write">>),
                             updateWithVars(m.store["message"], c.mut)))

\* the third try block: getVariables, updateWithVars, replaceVariables, refresh
GenericPath(m, c, f) ==
    IF ~env.gen THEN [m |-> m, c |-> Finished(c)]
    ELSE IF ~f.genRead THEN [m |-> m, c |-> Finished(Logged(c, <<"gen_read_fail">>))]
    ELSE IF ~f.genWrite
    THEN [m |-> Written(m, LiveDocument(m.store["message"], c.mut)),
          c |-> Finished(Logged(c, <<"gen_read", "gen_write_fail">>))]
    ELSE Return(RefreshAfter(m, Logged(c, <<"gen_read", "gen_write">>),
                             updateWithVars(m.store["message"], c.mut)))

\* the second try block up to `await Mvu.replaceMvuData(next, option)`
MvuStart(m, c, f) ==
    IF ~env.mvu THEN GenericPath(m, c, f)
    ELSE IF ~f.mvuRead THEN GenericPath(m, Logged(c, <<"mvu_read_fail">>), f)
    ELSE [m |-> Written(m, LiveDocument(m.store["message"], c.mut)),
          c |-> [Logged(c, <<"mvu_read">>) EXCEPT
                    !.pc = "mvuWrite",
                    !.next = updateWithVars(m.store["message"], c.mut)]]

\* after the structured backend's refresh(): return, or the catch and the
\* third try block
MvuRefreshed(r, f) == IF r.raised THEN GenericPath(r.m, r.c, f) ELSE Return(r)

\* replaceMvuData settles, the catch of the second try block returning
MvuSettle_returnInCatch(m, c, f) ==
    IF ~f.mvuWrite THEN [m |-> m, c |-> Finished(Logged(c, <<"mvu_write_fail">>))]
    ELSE MvuRefreshed(RefreshAfter(m, Logged(c, <<"mvu_write">>), c.next), f)

\* replaceMvuData settles: refresh() and return, or the catch and the third
\* try block
MvuSettle(m, c, f) ==
    IF ~f.mvuWrite THEN GenericPath(m, Logged(c, <<"mvu_write_fail">>), f)
    ELSE MvuRefreshed(RefreshAfter(m, Logged(c, <<"mvu_write">>), c.next), f)

---------------------------------------------------------------------------
(* The component: initial documents, handlers, writer steps, notifications *)

\* the post of the handler an execution was started by, and the feed working
\* copy before and after its optimistic update
NoHandler == [postIndex |-> 0, before |-> EmptyArr, optimistic |-> EmptyArr]
NoCall ==
    [id |-> 0, mut |-> [kind |-> "none"], from |-> NoHandler, pc |-> "none", next |-> Undef,
     wrote |-> Undef, log |-> <<>>, read |-> FALSE, rejected |-> FALSE]

\* an object from optional fields: <<>> is a missing key, <<x>> the value x
ObjOf(opts) == Obj([k \in {q \in DOMAIN opts : opts[q] # <<>>} |-> opts[k][1]])

CommentX == Obj([author |-> Str("X"), text |-> Str("t")])
CommentY == Obj([author |-> Str("Y"), text |-> Str("u")])

\* the hosts: which globals exist
Envs ==
    {[mvu |-> TRUE, gen |-> TRUE, msgId |-> TRUE, wait |-> TRUE, macros |-> "ok"],
     [mvu |-> TRUE, gen |-> FALSE, msgId |-> TRUE, wait |-> FALSE, macros |-> "absent"],
     [mvu |-> TRUE, gen |-> TRUE, msgId |-> FALSE, wait |-> FALSE, macros |-> "ok"],
     [mvu |-> FALSE, gen |-> TRUE, msgId |-> TRUE, wait |-> FALSE, macros |-> "absent"],
     [mvu |-> FALSE, gen |-> FALSE, msgId |-> FALSE, wait |-> FALSE, macros |-> "absent"]}

Stats(comments, likes, liked) ==
    Obj([comments |-> Num(comments), likes |-> Num(likes), is_liked_by_viewer |-> Bool(liked)])

ReplyYX == Obj([from |-> Str("Y"), to |-> Str("X"), text |-> Str("r")])
CommentXWithReply == Obj([author |-> Str("X"), text |-> Str("t"), replies |-> Arr(<<ReplyYX>>)])

FeedPostOf(stats, comments) ==
    ObjOf([user |-> <<Obj([name |-> Str("A"), handle |-> Str("@a")])>>,
           body |-> <<Str(TxtMacro)>>,
           stats |-> <<stats>>,
           people_comments |-> comments.canonical,
           People_comments |-> comments.alternate])

\* the posts a store may hold: counters that agree with the comments and
\* counters that do not, comments under either field name
PostCommented ==
    FeedPostOf(Stats(2, 1, TRUE), [canonical |-> <<Arr(<<CommentXWithReply>>)>>, alternate |-> <<>>])
PostMiscounted ==
    FeedPostOf(Stats(0, 0, TRUE), [canonical |-> <<Arr(<<CommentXWithReply>>)>>, alternate |-> <<>>])
PostAlternate ==
    FeedPostOf(Stats(1, 1, FALSE), [canonical |-> <<>>, alternate |-> <<Arr(<<CommentX>>)>>])
Feeds == {Obj([posts |-> Arr(<<PostMiscounted>>)]), Obj([posts |-> Arr(<<PostAlternate>>)])}
LongFeed == Obj([posts |-> Arr(<<PostCommented, PostAlternate>>)])

ProfilePage ==
    Obj([posts |-> Arr(<<Obj([id |-> Str("p1"), body |-> Str("mine"),
                              stats |-> Stats(0, 1, TRUE)])>>)])

RootWith(feed) == Obj([echo_chamber_feed |-> feed, user_profile_page |-> ProfilePage])

\* where the store holds the root document
Layouts == {"stat_echo", "stat", "root", "chat", "character", "global"}

StoreOf(layout, feed) ==
    [sc \in Scopes |->
        CASE layout = "stat_echo" /\ sc = "message" ->
                Obj([stat_data |-> Obj([echo_chamber |-> RootWith(feed)])])
          [] layout = "stat" /\ sc = "message" -> Obj([stat_data |-> RootWith(feed)])
          [] layout = "root" /\ sc = "message" -> RootWith(feed)
          [] layout = sc -> Obj([stat_data |-> RootWith(feed)])
          [] OTHER -> EmptyObj]

\* the stores a mount can find
Stores == {StoreOf(layout, feed) : layout \in Layouts, feed \in Feeds} \cup {StoreOf("root", LongFeed)}

Now == Machine(store, data, feedPosts, userPosts)

\* the built-in profile user: useState(profileUser.signature ?? ''),
\* useState(!!profileUser.is_followed_by_viewer), useState(stats.followers ?? 0)
DefaultSignature == "no signature yet"
\* no profile handler has run
NoEdit == [handler |-> "none", writer |-> FALSE, refreshed |-> FALSE, kept |-> <<>>]

ProfileIdle ==
    /\ userSignature = DefaultSignature
    /\ profileFollowed = FALSE
    /\ profileFollowerCount = 0
    /\ lastEdit = NoEdit

\* no partner: the empty handle and name of the built-in dmPartner, and a
\* null dmPartnerOverride
NoPartner == ""

\* no timer handle yet
NoTimer == [key |-> NoPartner, messages |-> <<>>, due |-> -1]

\* data.direct_message_thread?.messages: undefined, or a list
NoThread == [present |-> FALSE, messages |-> <<>>]
ThreadOf(messages) == [present |-> TRUE, messages |-> messages]

\* no cache operation yet
NoCacheEvent == [e |-> "none"]

\* the conversation and the cache of a component that is not shown
NoChat ==
    [mounted |-> FALSE, partner |-> NoPartner, override |-> NoPartner, thread |-> Undef,
     messages |-> EmptyArr, fromThread |-> FALSE, staged |-> <<>>, input |-> ""]
CacheIdle ==
    /\ npcStore = <<>>
    /\ chat = NoChat
    /\ pendingOps = {}
    /\ exportFile = <<>>
    /\ cacheEvent = NoCacheEvent
    /\ cacheOps = 0

\* the conversation state of a component without direct-message data
DmIdle ==
    /\ dmMounted = "no"
    /\ dmPartner = NoPartner
    /\ dmThread = NoThread
    /\ dmPartnerOverride = NoPartner
    /\ dmMessages = <<>>
    /\ dmFromThread = FALSE
    /\ cache = <<>>
    /\ timers = {}
    /\ timer = NoTimer
    /\ loads = {}
    /\ now = 0
    /\ dmLog = <<>>
    /\ dmOps = 0

\* the component as constructed: useState's initial values over an empty
\* canonical model
Init ==
    /\ env \in Envs
    /\ store \in Stores
    /\ mounted = FALSE
    /\ data = EmptyObj
    /\ feedPosts = EmptyArr
    /\ userPosts = EmptyArr
    /\ calls = <<>>
    /\ ops = 0
    /\ lastCall = NoCall
    /\ ProfileIdle
    /\ DmIdle
    /\ CacheIdle
    /\ fnIn = Undef
    /\ fnOut = Undef
    /\ fnPrev = Undef
    /\ fnOp = "none"

\* the state a refreshData leaves
Refreshed(r) ==
    /\ store' = r.m.store
    /\ data' = r.m.data
    /\ feedPosts' = r.m.feedPosts
    /\ userPosts' = r.m.userPosts

\* the mount effect: refreshData(), before any event is handled
Mount ==
    /\ ~mounted
    /\ mounted' = TRUE
    /\ Refreshed(refreshData(Now, {}))
    /\ UNCHANGED <<env, calls, ops, lastCall, fnVars, auxVars>>

\* the state and the execution a step of updateStatData leaves
Leave(r, position) ==
    /\ store' = r.m.store
    /\ data' = r.m.data
    /\ feedPosts' = r.m.feedPosts
    /\ userPosts' = r.m.userPosts
    /\ calls' =
        LET rest == IF position = 0 THEN calls
                    ELSE [j \in 1..(Len(calls) - 1) |->
                            IF j < position THEN calls[j] ELSE calls[j + 1]]
        IN IF r.c.pc = "done" THEN rest
           ELSE IF position = 0 THEN Append(calls, r.c)
           ELSE [calls EXCEPT ![position] = r.c]
    /\ lastCall' = IF r.c.pc = "done" THEN r.c ELSE NoCall

\* void updateStatData(apply, refreshData) at the end of a handler: it runs
\* to its first await
Launch(m, mut, f, postIndex) ==
    /\ mounted
    /\ ops < MaxOps
    /\ ops' = ops + 1
    /\ \E c \in {NewCall(ops + 1, mut,
                        [postIndex |-> postIndex,
                         before |-> feedPosts, optimistic |-> m.feedPosts])} :
           Leave(IF OptionThrows(f) THEN [m |-> m, c |-> Rejected(c)]
                 ELSE IF env.wait THEN [m |-> m, c |-> c]
                 ELSE MvuStart(m, c, f), 0)
    /\ UNCHANGED <<mounted, env, fnVars, auxVars>>

\* a post the feed view renders and its handlers can read
Rendered(posts, index) ==
    /\ index \in 0..(Length(posts) - 1)
    /\ At(posts, index).t = "obj"
    /\ Prop(At(posts, index), "stats").t = "obj"

toggleFeedLike(index, f) ==
    /\ Rendered(feedPosts, index)
    /\ Launch([Now EXCEPT !.feedPosts = ToggleWorking(feedPosts, index)],
              [kind |-> "like", path |-> StatsPath("echo_chamber_feed", index)],
              f, index)

toggleUserLike(index, f) ==
    /\ Rendered(userPosts, index)
    /\ Launch([Now EXCEPT !.userPosts = ToggleWorking(userPosts, index)],
              [kind |-> "like", path |-> StatsPath("user_profile_page", index)],
              f, index)

toggleProfileLike(index, f) ==
    /\ Rendered(userPosts, index)
    /\ Launch([Now EXCEPT !.userPosts = ToggleWorking(userPosts, index)],
              [kind |-> "like", path |-> StatsPath("user_profile_page", index)],
              f, index)

\* the texts typed into a reply input
ReplyTexts == {"hi"}

handleFeedReplySend(postIndex, target, content, f) ==
    LET post == At(feedPosts, postIndex)
        peopleComments == Coalesce(Prop(post, "people_comments"), EmptyArr)
        reply == MakeReply(data, post, target, content)
        newComment == MakeComment(data, content)
    IN /\ Rendered(feedPosts, postIndex)
       /\ target # -1 => Truthy(At(peopleComments, target))
       /\ Launch([Now EXCEPT !.feedPosts =
                      SendWorking(feedPosts, postIndex, target, reply, newComment)],
                 [kind |-> "send", postIndex |-> postIndex, target |-> target,
                  newReply |-> reply, newComment |-> newComment],
                 f, postIndex)

handleDeleteFeedComment(postIndex, commentIndex, f) ==
    LET post == At(feedPosts, postIndex)
        targetComment == At(Coalesce(Prop(post, "people_comments"), EmptyArr), commentIndex)
        removedCount == 1 + Length(Prop(targetComment, "replies"))
    IN /\ Rendered(feedPosts, postIndex)
       /\ Truthy(targetComment)
       /\ Launch([Now EXCEPT !.feedPosts =
                      DeleteCommentWorking(feedPosts, postIndex, commentIndex, removedCount)],
                 [kind |-> "deleteComment", postIndex |-> postIndex,
                  commentIndex |-> commentIndex, removedCount |-> removedCount],
                 f, postIndex)

handleDeleteFeedReply(postIndex, commentIndex, replyIndex, f) ==
    LET post == At(feedPosts, postIndex)
        comment == At(Prop(post, "people_comments"), commentIndex)
    IN /\ Rendered(feedPosts, postIndex)
       /\ Truthy(At(Prop(comment, "replies"), replyIndex))
       /\ Launch([Now EXCEPT !.feedPosts =
                      DeleteReplyWorking(feedPosts, postIndex, commentIndex, replyIndex)],
                 [kind |-> "deleteReply", postIndex |-> postIndex,
                  commentIndex |-> commentIndex, replyIndex |-> replyIndex],
                 f, postIndex)

\* an execution resumes after `await waitGlobalInitialized('Mvu')`
WriterResume(position, f) ==
    /\ calls[position].pc = "wait"
    /\ Leave(MvuStart(Now, calls[position], f), position)
    /\ UNCHANGED <<mounted, env, ops, fnVars, auxVars>>

\* an execution resumes after `await Mvu.replaceMvuData(next, option)`
WriterSettle(position, f) ==
    /\ calls[position].pc = "mvuWrite"
    /\ Leave(MvuSettle(Now, calls[position], f), position)
    /\ UNCHANGED <<mounted, env, ops, fnVars, auxVars>>

\* a change notification of the host runs refreshData()
Notify(bad) ==
    /\ mounted
    /\ \E r \in {refreshData(Now, bad)} :
           /\ ~r.raised
           /\ Refreshed(r)
    /\ lastCall' = NoCall
    /\ UNCHANGED <<mounted, env, calls, ops, fnVars, auxVars>>

\* a handler runs the writer up to its first await: with no
\* waitGlobalInitialized that is replaceMvuData
LaunchFaults == IF env.wait THEN {AllFine} ELSE StartFaults

\* the indices a click can name
Indices == 0..1

Next ==
    \/ Mount
    \/ \E index \in Indices, f \in LaunchFaults : toggleFeedLike(index, f)
    \/ \E index \in Indices, f \in LaunchFaults : toggleUserLike(index, f)
    \/ \E index \in Indices, f \in LaunchFaults : toggleProfileLike(index, f)
    \/ \E postIndex \in Indices, target \in {-1} \cup Indices, content \in ReplyTexts, f \in LaunchFaults :
            handleFeedReplySend(postIndex, target, content, f)
    \/ \E postIndex \in Indices, commentIndex \in Indices, f \in LaunchFaults :
            handleDeleteFeedComment(postIndex, commentIndex, f)
    \/ \E postIndex \in Indices, commentIndex \in Indices, replyIndex \in Indices, f \in LaunchFaults :
            handleDeleteFeedReply(postIndex, commentIndex, replyIndex, f)
    \/ \E position \in DOMAIN calls, f \in StartFaults : WriterResume(position, f)
    \/ \E position \in DOMAIN calls, f \in SettleFaults : WriterSettle(position, f)
    \/ \E bad \in {{}, {"mvu"}} : Notify(bad)

Spec == Init /\ [][Next]_vars

---------------------------------------------------------------------------
(* Inputs of the pure functions *)

\* posts with either, both or neither comments field
NormPosts ==
    { ObjOf([body |-> <<Str("hi")>>, people_comments |-> pc, People_comments |-> alt]) :
        pc \in {<<>>, <<Null>>, <<EmptyArr>>, <<Arr(<<CommentX>>)>>},
        alt \in {<<>>, <<EmptyArr>>, <<Arr(<<CommentY>>)>>, <<Arr(<<CommentY, CommentX>>)>>} }

RECURSIVE SeqsUpTo(_, _)
SeqsUpTo(S, n) ==
    IF n = 0 THEN {<<>>}
    ELSE SeqsUpTo(S, n - 1) \cup {Append(q, x) : q \in {r \in SeqsUpTo(S, n - 1) : Len(r) = n - 1}, x \in S}

\* feeds without posts, and with up to MaxNormPosts posts
NormInputs ==
    {Obj([viewer_profile |-> Obj([name |-> Str("V")])])}
        \cup {Obj([posts |-> Arr(q)]) : q \in SeqsUpTo(NormPosts, MaxNormPosts)}

\* values of every type, source texts, and objects with every combination
\* of the keys the classification looks at
CoerceScalars ==
    {Undef, Null, Bool(FALSE), Bool(TRUE), Num(0), Num(7), Str(""), EmptyArr,
     Arr(<<EmptyFeed>>), EmptyObj} \cup {Str(s) : s \in Texts}

WrapperValues ==
    {Null, EmptyObj, EmptyFeed, Obj([echo_chamber_feed |-> EmptyFeed]), Num(7),
     Str(TxtPlain), Str(TxtJsonRoot), Str(TxtTruncated),
     Obj([echo_chamber |-> EmptyFeed]), Obj([echo_chamber |-> Str(TxtQuotedPlain)])}

CoerceObjects ==
    { ObjOf([echo_chamber_feed |-> ecf, user_profile_page |-> upp, echo_chamber |-> ec,
             posts |-> ps, viewer_profile |-> vp]) :
        ecf \in {<<>>, <<EmptyFeed>>, <<Null>>, <<Str(TxtYamlFeed)>>, <<Str(TxtPlain)>>,
                 <<Str(TxtJsonRoot)>>},
        upp \in {<<>>, <<Obj([posts |-> EmptyArr])>>},
        ec \in {<<>>} \cup {<<w>> : w \in WrapperValues},
        ps \in {<<>>, <<EmptyArr>>},
        vp \in {<<>>, <<Obj([name |-> Str("V")])>>} }

CoerceInputs == CoerceScalars \cup CoerceObjects

\* posts with every likes count up to MaxLikes, liked by the viewer or not
LikePosts ==
    {Obj([id |-> Str("p"), stats |-> Stats(1, n, liked)]) : n \in 0..MaxLikes, liked \in BOOLEAN}

\* feed posts as the working copy and the store both hold them: no comments
\* field, no comment, a comment without replies, comments with a reply; a
\* counter that agrees with the comments and one that does not
EditComments ==
    {<<>>, <<EmptyArr>>, <<Arr(<<CommentX>>)>>, <<Arr(<<CommentXWithReply>>)>>,
     <<Arr(<<CommentXWithReply, CommentY>>)>>}
EditPosts ==
    {[t |-> "edit",
      post |-> FeedPostOf(Stats(n, 0, liked), [canonical |-> comments, alternate |-> <<>>])] :
        n \in {0, 1, 2, 3}, liked \in BOOLEAN, comments \in EditComments}
    \cup {[t |-> "edit", post |-> FeedPostOf(stats, [canonical |-> comments, alternate |-> <<>>])] :
            stats \in {EmptyObj, Obj([comments |-> Num(1)])}, comments \in EditComments}

\* the two views a like toggle writes under
Views == {"echo_chamber_feed", "user_profile_page"}
ViewOf(statData) == CHOOSE view \in Views : HasKey(statData, view)

\* source texts handed to parseYamlSource
ParseInputs == {Str(s) : s \in Texts}

\* texts as token lists: equal keys, equal keys and a trailing comma, a
\* trailing comma alone, a text that stops early, the text null
TokDupKeys ==
    <<Punct("{"), Lit(Str("a")), Punct(":"), Lit(Num(0)), Punct(","),
      Lit(Str("a")), Punct(":"), Lit(Num(7)), Punct("}")>>
TokDupKeysComma == SubSeq(TokDupKeys, 1, 8) \o <<Punct(","), Punct("}")>>
TokTrailingComma == <<Punct("["), Lit(Num(0)), Punct(","), Punct("]")>>
TokTruncated == <<Punct("{"), Lit(Str("a")), Punct(":")>>
TokenTexts ==
    {[t |-> "text", v |-> toks] :
        toks \in {TokDupKeys, TokDupKeysComma, TokTrailingComma, TokTruncated, <<Lit(Null)>>}}

\* documents for the macro resolver: string leaves the host rewrites, keeps
\* or throws on, other scalars, a missing element, nested containers
MacroLeaves == {Str(TxtMacro), Str(TxtMacroBad), Str("plain"), Num(7), Null, Bool(TRUE)}
MacroDocs ==
    MacroLeaves
        \cup {Arr(q) : q \in SeqsUpTo(MacroLeaves, MaxJsonWidth)}
        \cup {Arr(<<Hole, x>>) : x \in MacroLeaves}
        \cup {Obj([a |-> x, b |-> Arr(<<y, Obj([c |-> z])>>)]) :
                  x \in MacroLeaves, y \in MacroLeaves, z \in {Str(TxtMacro), Str(TxtMacroBad), Null}}
MacroInputs ==
    {[t |-> "macro", v |-> d, macros |-> m] : d \in MacroDocs, m \in {"ok", "absent", "throws"}}

\* documents that strict JSON can represent
JsonScalars == {Null, Bool(FALSE), Bool(TRUE), Num(0), Num(7), Str(""), Str("a")}
JsonFlat ==
    JsonScalars
        \cup {Arr(q) : q \in SeqsUpTo(JsonScalars, MaxJsonWidth)}
        \cup UNION {{Obj(f) : f \in [keys -> JsonScalars]} : keys \in SUBSET {"a", "b"}}
JsonNested ==
    {Obj([a |-> Arr(<<Obj([b |-> x])>>), b |-> y]) : x \in JsonScalars, y \in {Null, EmptyArr}}
        \cup {Arr(<<Arr(<<x>>), Obj([a |-> x])>>) : x \in JsonScalars}
JsonDocs == {[t |-> "json", v |-> d] : d \in JsonFlat \cup JsonNested}

---------------------------------------------------------------------------
(* The pure functions as a state machine: an input is drawn, a function is *)
(* applied to it, and the normalizer may be applied again to its output.  *)

AppIdle ==
    /\ mounted = FALSE
    /\ store = <<>>
    /\ env = <<>>
    /\ data = EmptyObj
    /\ feedPosts = EmptyArr
    /\ userPosts = EmptyArr
    /\ calls = <<>>
    /\ ops = 0
    /\ lastCall = NoCall

InitFn ==
    /\ AppIdle
    /\ ProfileIdle
    /\ DmIdle
    /\ CacheIdle
    /\ fnIn \in NormInputs \cup CoerceInputs \cup LikePosts \cup TokenTexts \cup JsonDocs
                \cup MacroInputs \cup EditPosts
    /\ fnOut = Undef
    /\ fnPrev = Undef
    /\ fnOp = "none"

ApplyNormalize ==
    /\ fnOp = "none"
    /\ fnIn \in NormInputs
    /\ fnOut' = normalizeEchoChamberFeed(fnIn)
    /\ fnOp' = "normalize"
    /\ UNCHANGED <<fnIn, fnPrev>>
    /\ UNCHANGED <<appVars, auxVars>>

ApplyNormalizeAgain ==
    /\ fnOp = "normalize"
    /\ fnOut # Raised
    /\ fnPrev' = fnOut
    /\ fnOut' = normalizeEchoChamberFeed(fnOut)
    /\ fnOp' = "normalize2"
    /\ UNCHANGED fnIn
    /\ UNCHANGED <<appVars, auxVars>>

ApplyCoerceRoot ==
    /\ fnOp = "none"
    /\ fnIn \in CoerceInputs
    /\ fnOut' = coerceRootData(fnIn)
    /\ fnOp' = "coerceRoot"
    /\ UNCHANGED <<fnIn, fnPrev>>
    /\ UNCHANGED <<appVars, auxVars>>

ApplyCoerceFeed ==
    /\ fnOp = "none"
    /\ fnIn \in CoerceInputs
    /\ fnOut' = coerceEchoChamberFeed(fnIn)
    /\ fnOp' = "coerceFeed"
    /\ UNCHANGED <<fnIn, fnPrev>>
    /\ UNCHANGED <<appVars, auxVars>>

\* the setState updater of a like toggle on a working copy of one post
ApplyToggleWorking ==
    /\ fnOp = "none"
    /\ fnIn \in LikePosts
    /\ fnOut' = ToggleWorking(Arr(<<fnIn>>), 0)
    /\ fnOp' = "toggleWorking"
    /\ UNCHANGED <<fnIn, fnPrev>>
    /\ UNCHANGED <<appVars, auxVars>>

ApplyToggleWorkingAgain ==
    /\ fnOp = "toggleWorking"
    /\ fnPrev' = fnOut
    /\ fnOut' = ToggleWorking(fnOut, 0)
    /\ fnOp' = "toggleWorking2"
    /\ UNCHANGED fnIn
    /\ UNCHANGED <<appVars, auxVars>>

\* the mutator of a like toggle on a stat_data holding the post under a view
ApplyToggleStored ==
    /\ fnOp = "none"
    /\ fnIn \in LikePosts
    /\ \E view \in Views :
           fnOut' = Apply([kind |-> "like", path |-> StatsPath(view, 0)],
                          Obj([q \in {view} |-> Obj([posts |-> Arr(<<fnIn>>)])]))
    /\ fnOp' = "toggleStored"
    /\ UNCHANGED <<fnIn, fnPrev>>
    /\ UNCHANGED <<appVars, auxVars>>

ApplyToggleStoredAgain ==
    /\ fnOp = "toggleStored"
    /\ fnPrev' = fnOut
    /\ fnOut' = Apply([kind |-> "like", path |-> StatsPath(ViewOf(fnOut), 0)], fnOut)
    /\ fnOp' = "toggleStored2"
    /\ UNCHANGED fnIn
    /\ UNCHANGED <<appVars, auxVars>>

\* parseYamlSource(source): what the grammars make of the text, and the
\* grammars tried with the value returned
ApplyParse ==
    /\ fnOp = "none"
    /\ fnIn \in ParseInputs
    /\ fnPrev' = Outcomes(fnIn.v)
    /\ fnOut' = ParseTrace(fnIn.v)
    /\ fnOp' = "parse"
    /\ UNCHANGED fnIn
    /\ UNCHANGED <<appVars, auxVars>>

ApplyParseTokens ==
    /\ fnOp = "none"
    /\ fnIn \in TokenTexts
    /\ fnPrev' = TokenOutcomes(fnIn.v)
    /\ fnOut' = TokenTrace(fnIn.v)
    /\ fnOp' = "parse"
    /\ UNCHANGED fnIn
    /\ UNCHANGED <<appVars, auxVars>>

\* JSON.stringify(d)
ApplyStringify ==
    /\ fnOp = "none"
    /\ fnIn \in JsonDocs
    /\ fnOut' = [t |-> "text", v |-> JsonStringify(fnIn.v)]
    /\ fnOp' = "stringify"
    /\ UNCHANGED <<fnIn, fnPrev>>
    /\ UNCHANGED <<appVars, auxVars>>

\* parseYamlSource(JSON.stringify(d))
ApplyParseBack ==
    /\ fnOp = "stringify"
    /\ fnPrev' = TokenOutcomes(fnOut.v)
    /\ fnOut' = TokenTrace(fnOut.v)
    /\ fnOp' = "roundtrip"
    /\ UNCHANGED fnIn
    /\ UNCHANGED <<appVars, auxVars>>

\* resolveMacrosDeep(value) under a host with or without substitudeMacros
ApplyResolve ==
    /\ fnOp = "none"
    /\ fnIn \in MacroInputs
    /\ fnOut' = resolveMacrosDeep(fnIn.v, fnIn.macros)
    /\ fnOp' = "resolve"
    /\ UNCHANGED <<fnIn, fnPrev>>
    /\ UNCHANGED <<appVars, auxVars>>

\* the mutations the feed handlers build for post 0 of a working copy: each
\* handler returns before its update when its target does not exist
HandlerMutations(posts) ==
    LET post == At(posts, 0)
        comments == Coalesce(Prop(post, "people_comments"), EmptyArr)
    IN {[kind |-> "like", path |-> StatsPath("echo_chamber_feed", 0)]}
       \cup {[kind |-> "send", postIndex |-> 0, target |-> target,
               newReply |-> MakeReply(EmptyObj, post, target, "hi"),
               newComment |-> MakeComment(EmptyObj, "hi")] :
                 target \in {-1} \cup {j \in Indices : Truthy(At(comments, j))}}
       \cup {[kind |-> "deleteComment", postIndex |-> 0, commentIndex |-> j,
               removedCount |-> 1 + Length(Prop(At(comments, j), "replies"))] :
                 j \in {q \in Indices : Truthy(At(comments, q))}}
       \cup UNION {{[kind |-> "deleteReply", postIndex |-> 0, commentIndex |-> j, replyIndex |-> r] :
                       r \in {q \in Indices : Truthy(At(Prop(At(comments, j), "replies"), q))}} :
                    j \in Indices}

\* the setState updater of the handler that built the mutation
WorkingUpdate(posts, mut) ==
    CASE mut.kind = "like" -> ToggleWorking(posts, 0)
      [] mut.kind = "send" -> SendWorking(posts, 0, mut.target, mut.newReply, mut.newComment)
      [] mut.kind = "deleteComment" ->
            DeleteCommentWorking(posts, 0, mut.commentIndex, mut.removedCount)
      [] mut.kind = "deleteReply" ->
            DeleteReplyWorking(posts, 0, mut.commentIndex, mut.replyIndex)

\* a feed handler on a working copy and a stat_data that hold the same post:
\* the optimistic update of the one, the mutator on the other
ApplyHandler ==
    /\ fnOp = "none"
    /\ fnIn \in EditPosts
    /\ \E mut \in HandlerMutations(Arr(<<fnIn.post>>)) :
           fnOut' = [t |-> "edited", mut |-> mut,
                     working |-> WorkingUpdate(Arr(<<fnIn.post>>), mut),
                     stored |-> Apply(mut, Obj([echo_chamber_feed |->
                                                   Obj([posts |-> Arr(<<fnIn.post>>)])]))]
    /\ fnOp' = "edit"
    /\ UNCHANGED <<fnIn, fnPrev>>
    /\ UNCHANGED <<appVars, auxVars>>

NextFn ==
    \/ ApplyHandler
    \/ ApplyResolve
    \/ ApplyParse
    \/ ApplyParseTokens
    \/ ApplyStringify
    \/ ApplyParseBack
    \/ ApplyNormalize
    \/ ApplyNormalizeAgain
    \/ ApplyCoerceRoot
    \/ ApplyCoerceFeed
    \/ ApplyToggleWorking
    \/ ApplyToggleWorkingAgain
    \/ ApplyToggleStored
    \/ ApplyToggleStoredAgain

SpecFn == InitFn /\ [][NextFn]_vars

---------------------------------------------------------------------------
(* The reader and refreshData applied to bounded stores, hosts and faults *)

\* a feed that names the scope it is stored in
ScopeFeed(sc) == Obj([posts |-> Arr(<<Obj([body |-> Str(sc), stats |-> Stats(0, 0, FALSE)])>>)])

\* what a scope can hold: nothing, the root under stat_data, the root as
\* the document, a stat_data the coercion throws on
DocKinds == {"none", "stat", "root", "unreadable"}
DocOf(kind, sc) ==
    CASE kind = "stat" -> Obj([stat_data |-> RootWith(ScopeFeed(sc))])
      [] kind = "root" -> RootWith(ScopeFeed(sc))
      [] kind = "unreadable" -> Obj([stat_data |-> Str(TxtPlain)])
      [] OTHER -> EmptyObj

ReadStores == {[sc \in Scopes |-> DocOf(kinds[sc], sc)] : kinds \in [Scopes -> DocKinds]}

\* the host accesses that throw during one read: Mvu.getMvuData ("mvu"),
\* getCurrentMessageId ("msgId"), getVariables of a scope
ReadFaults ==
    {{}, {"mvu"}, {"msgId"}, {"message"}, {"chat"}, {"mvu", "message", "chat", "character"}}

\* the model the component holds and a feed working copy with a local change
HeldModel ==
    Obj([echo_chamber_feed |-> Obj([posts |-> Arr(<<PostCommented>>)]),
         user_profile_page |-> ProfilePage,
         direct_message_thread |-> Obj([messages |-> EmptyArr])])
HeldStates ==
    {Machine(<<>>, EmptyObj, EmptyArr, EmptyArr),
     Machine(<<>>, HeldModel, ToggleWorking(Arr(<<PostCommented>>), 0), Prop(ProfilePage, "posts"))}

InitRead ==
    /\ env \in Envs
    /\ store \in ReadStores
    /\ \E held \in HeldStates :
           /\ data = held.data
           /\ feedPosts = held.feedPosts
           /\ userPosts = held.userPosts
    /\ mounted = TRUE
    /\ calls = <<>>
    /\ ops = 0
    /\ lastCall = NoCall
    /\ ProfileIdle
    /\ DmIdle
    /\ CacheIdle
    /\ fnIn \in ReadFaults
    /\ fnOut = Undef
    /\ fnPrev = Undef
    /\ fnOp = "none"

\* readEchoChamberVariables(): its result and the getVariables calls it made
ApplyRead ==
    /\ fnOp = "none"
    /\ fnOut' = readEchoChamberVariables(store, fnIn)
    /\ fnPrev' = GenericConsulted(store, fnIn)
    /\ fnOp' = "read"
    /\ UNCHANGED <<fnIn, appVars, auxVars>>

\* refreshData(): the state it leaves and whether it threw
ApplyRefresh ==
    /\ fnOp = "none"
    /\ fnOut' = refreshData(Now, fnIn)
    /\ fnOp' = "refresh"
    /\ UNCHANGED <<fnIn, fnPrev, appVars, auxVars>>

\* a second refreshData() over the same store and host
ApplyRefreshAgain ==
    /\ fnOp = "refresh"
    /\ ~fnOut.raised
    /\ fnPrev' = fnOut
    /\ fnOut' = refreshData(fnOut.m, fnIn)
    /\ fnOp' = "refresh2"
    /\ UNCHANGED <<fnIn, appVars, auxVars>>

NextRead ==
    \/ ApplyRead
    \/ ApplyRefresh
    \/ ApplyRefreshAgain

SpecRead == InitRead /\ [][NextRead]_vars

---------------------------------------------------------------------------
(* Claims about the pure functions, checked under SpecFn *)

PostsOf(feed) == Prop(feed, "posts")

\* the stats of the post a like toggle was applied to, in the result
ToggledStats(result) ==
    IF result.t = "arr" THEN Prop(At(result, 0), "stats")
    ELSE Get(result, StatsPath(ViewOf(result), 0))

\* C2 as stated: for every likes = n >= 0 and either value of
\* is_liked_by_viewer, applying the like toggle twice returns likes to n and
\* is_liked_by_viewer to its original value, in the working copy and in the
\* persisted stat_data.
C2_DoubleToggleRestores ==
    fnOp \in {"toggleWorking2", "toggleStored2"} =>
        /\ Prop(ToggledStats(fnOut), "likes") = Prop(Prop(fnIn, "stats"), "likes")
        /\ Prop(ToggledStats(fnOut), "is_liked_by_viewer")
              = Prop(Prop(fnIn, "stats"), "is_liked_by_viewer")

\* C2 amended: two toggles restore likes and is_liked_by_viewer unless the
\* post starts with likes = 0 and is_liked_by_viewer = true; there the first
\* toggle clamps likes at 0 and the second leaves likes = 1, liked; the other
\* fields of the stats are unchanged either way.
C2_DoubleToggleRestoresUnlessClamped ==
    fnOp \in {"toggleWorking2", "toggleStored2"} =>
        LET before == Prop(fnIn, "stats")
            clamped == Prop(before, "likes") = Num(0) /\ Prop(before, "is_liked_by_viewer") = Bool(TRUE)
        IN ToggledStats(fnOut) =
              IF clamped THEN Assign(before, K("likes"), Num(1)) ELSE before

\* a liked post with one like went to zero likes, not liked, and back, in the
\* persisted stat_data
C2_Witness ==
    /\ fnOp = "toggleStored2"
    /\ Prop(fnIn, "stats") = Stats(1, 1, TRUE)
    /\ ToggledStats(fnPrev) = Stats(1, 0, FALSE)
    /\ ToggledStats(fnOut) = Stats(1, 1, TRUE)

\* C4: after normalizeEchoChamberFeed no post of the result carries the
\* alternate-case field People_comments, whether the input post had only the
\* alternate field or both fields.
C4_NoAlternateField ==
    (fnOp \in {"normalize", "normalize2"} /\ fnOut # Raised) =>
        \A j \in 0..(Length(PostsOf(fnOut)) - 1) :
            ~HasKey(At(PostsOf(fnOut), j), "People_comments")

\* C5: a post with People_comments and no people_comments gets, as its
\* people_comments, exactly the sequence that was under People_comments; a post
\* that already has a people_comments sequence keeps it unchanged; the feed has
\* as many posts as before.
C5_AlternateCopied ==
    fnOp = "normalize" =>
        /\ fnOut # Raised
        /\ Length(PostsOf(fnOut)) = Length(PostsOf(fnIn))
        /\ \A j \in 0..(Length(PostsOf(fnIn)) - 1) :
            LET before == At(PostsOf(fnIn), j)
                after == At(PostsOf(fnOut), j)
            IN /\ (HasKey(before, "People_comments") /\ ~HasKey(before, "people_comments"))
                      => Prop(after, "people_comments") = Prop(before, "People_comments")
               /\ Prop(before, "people_comments").t = "arr"
                      => Prop(after, "people_comments") = Prop(before, "people_comments")

\* a post with only the alternate field, non-empty, was normalized, next to a
\* post that had both fields
C5_Witness ==
    /\ fnOp = "normalize"
    /\ \E j \in 0..(Length(PostsOf(fnIn)) - 1) :
        /\ ~HasKey(At(PostsOf(fnIn), j), "people_comments")
        /\ Prop(At(PostsOf(fnIn), j), "People_comments") = Arr(<<CommentY, CommentX>>)
        /\ Prop(At(PostsOf(fnOut), j), "people_comments") = Arr(<<CommentY, CommentX>>)
    /\ \E j \in 0..(Length(PostsOf(fnIn)) - 1) :
        /\ Prop(At(PostsOf(fnIn), j), "people_comments") = Arr(<<CommentX>>)
        /\ HasKey(At(PostsOf(fnIn), j), "People_comments")

\* C6: normalizeEchoChamberFeed is idempotent: normalize(normalize(f)) equals
\* normalize(f), for feeds with or without posts and posts with either, both or
\* neither comments field.
C6_Idempotent == fnOp = "normalize2" => fnOut = fnPrev

\* the first application changed the feed, and the second was applied to its result
C6_Witness ==
    /\ fnOp = "normalize2"
    /\ fnPrev # fnIn
    /\ fnOut = fnPrev
    /\ \E j \in 0..(Length(PostsOf(fnIn)) - 1) :
        Prop(At(PostsOf(fnIn), j), "people_comments") = EmptyArr

\* C7: coerceRootData and coerceEchoChamberFeed are total: for every input,
\* string inputs included, the call returns a value or null and never raises.
C7_CoerceTotal == fnOp \in {"coerceRoot", "coerceFeed"} => fnOut # Raised

\* C8 as stated: for a non-string input, strict precedence: (1) a RootData key,
\* (2) else the wrapper key echo_chamber, whose coercion is the result,
\* (3) else a feed-shaped key, (4) else null.
C8_StrictPrecedence ==
    (fnOp = "coerceRoot" /\ fnIn.t # "str") =>
        fnOut = IF isRootData(fnIn) THEN RootOf(fnIn)
                ELSE IF HasKey(fnIn, "echo_chamber")
                     THEN coerceRootData(Prop(fnIn, "echo_chamber"))
                ELSE IF HasKey(fnIn, "viewer_profile") \/ HasKey(fnIn, "posts")
                     THEN Obj([echo_chamber_feed |-> fnIn])
                ELSE Null

\* C8 amended: rule (2) gives the result only when echo_chamber is truthy and
\* coerces to a RootData (or that coercion raises); when the wrapper is falsy
\* or coerces to null, rules (3) and (4) are applied to the value itself.
C8_PrecedenceWithFallThrough ==
    (fnOp = "coerceRoot" /\ fnIn.t # "str") =>
        LET wrapper == Prop(fnIn, "echo_chamber")
            inner == coerceRootData(wrapper)
        IN fnOut = IF isRootData(fnIn) THEN RootOf(fnIn)
                   ELSE IF Truthy(wrapper) /\ inner = Raised THEN Raised
                   ELSE IF Truthy(wrapper) /\ inner # Null THEN inner
                   ELSE IF HasKey(fnIn, "viewer_profile") \/ HasKey(fnIn, "posts")
                        THEN Obj([echo_chamber_feed |-> fnIn])
                   ELSE Null

\* a value whose wrapper coerces to null and which is itself feed-shaped was
\* coerced to a feed wrapping the value
C8_Witness ==
    /\ fnOp = "coerceRoot"
    /\ ~isRootData(fnIn)
    /\ Prop(fnIn, "echo_chamber") = EmptyObj
    /\ HasKey(fnIn, "posts")
    /\ fnOut = Obj([echo_chamber_feed |-> fnIn])

\* a is an initial part of b
IsPrefix(a, b) == Len(a) <= Len(b) /\ SubSeq(b, 1, Len(a)) = a

\* the grammar whose result parseYamlSource returned, and the grammars that
\* failed before it
LastTried(trace) == trace.tried[Len(trace.tried)]
TriedInOrder(outcomes, trace) ==
    /\ trace.tried # <<>>
    /\ IsPrefix(trace.tried, <<"yaml", "json", "relaxed">>)
    /\ \A j \in 1..(Len(trace.tried) - 1) : ~outcomes[trace.tried[j]].ok
    /\ trace.failed = ~outcomes[LastTried(trace)].ok
    /\ trace.failed => trace.tried = <<"yaml", "json", "relaxed">> /\ trace.val = EmptyObj
    /\ trace.val # Raised

C29_JsonRoundTrip == fnOp = "roundtrip" => fnOut.val = fnIn.v

\* out is value with every string leaf either rewritten whole by the host
\* or kept verbatim, and everything else as it was
RECURSIVE LeavesResolved(_, _, _)
LeavesResolved(value, out, macros) ==
    CASE value.t = "str" ->
            /\ out.t = "str"
            /\ IF macros = "ok" /\ value.v # "{{bad}}"
               THEN out.v = substitudeMacros(value.v)
               ELSE out.v = value.v
      [] value.t = "arr" ->
            /\ out.t = "arr"
            /\ Len(out.v) = Len(value.v)
            /\ \A j \in DOMAIN value.v : LeavesResolved(value.v[j], out.v[j], macros)
      [] value.t = "obj" ->
            /\ out.t = "obj"
            /\ DOMAIN out.v = DOMAIN value.v
            /\ \A k \in DOMAIN value.v : LeavesResolved(value.v[k], out.v[k], macros)
      [] OTHER -> out = value

\* C30: resolveMacrosDeep never raises and never partially rewrites a
\* string: when substitudeMacros is unavailable, or raises for some string
\* leaf, that leaf is kept verbatim, every other string leaf is still
\* processed, and the result has the same mapping keys, the same sequence
\* lengths and order, and unchanged non-string scalars.
C30_ResolveKeepsShape ==
    fnOp = "resolve" => fnOut # Raised /\ LeavesResolved(fnIn.v, fnOut, fnIn.macros)

\* the host threw on one leaf and rewrote the next one
C30_Witness ==
    /\ fnOp = "resolve"
    /\ fnIn.macros = "ok"
    /\ fnIn.v = Arr(<<Str("{{bad}}"), Str("{{user}}")>>)
    /\ fnOut = Arr(<<Str("{{bad}}"), Str("Bob")>>)

\* the post a handler left in the working copy and in the stat_data
WorkingPost == At(fnOut.working, 0)
StoredPost == Get(fnOut.stored, BasePath(0))

\* C37: for the like toggle, the new comment, the reply to a comment, the
\* deletion of a comment and the deletion of a reply: when the working-copy
\* post and the stored post are equal before the operation, they are equal
\* after the optimistic update and the persisted mutation.
C37_CopiesStayEqual == fnOp = "edit" => WorkingPost = StoredPost

\* a reply was added to a comment that had none: both copies hold it
C37_Witness ==
    /\ fnOp = "edit"
    /\ fnOut.mut.kind = "send"
    /\ fnOut.mut.target = 0
    /\ Prop(fnIn.post, "people_comments") = Arr(<<CommentX>>)
    /\ Get(StoredPost, <<K("people_comments"), I(0), K("replies")>>) = Arr(<<fnOut.mut.newReply>>)
    /\ WorkingPost # fnIn.post

\* the comments of a post and all their replies
RECURSIVE Total(_)
Total(comments) ==
    IF comments = <<>> THEN 0
    ELSE 1 + Length(Prop(Head(comments), "replies")) + Total(Tail(comments))

\* stats.comments of the post is the number of its comments and replies
Counted(post) ==
    Get(post, <<K("stats"), K("comments")>>)
        = Num(Total(Coalesce(Prop(post, "people_comments"), EmptyArr).v))

\* C38: when stats.comments of a feed post is the number of its comments
\* plus the number of all their replies, it still is after a new comment, a
\* reply to a comment, the deletion of a comment with its replies and the
\* deletion of a reply, in the working copy and in the stat_data.
C38_CommentCountPreserved ==
    (fnOp = "edit" /\ fnOut.mut.kind # "like" /\ Counted(fnIn.post)) =>
        (Counted(WorkingPost) /\ Counted(StoredPost))

\* a comment with a reply was deleted from a post counting three: one
\* comment is left and counted
C38_Witness ==
    /\ fnOp = "edit"
    /\ fnOut.mut.kind = "deleteComment"
    /\ fnOut.mut.removedCount = 2
    /\ Get(fnIn.post, <<K("stats"), K("comments")>>) = Num(3)
    /\ Prop(WorkingPost, "people_comments") = Arr(<<CommentY>>)
    /\ Get(WorkingPost, <<K("stats"), K("comments")>>) = Num(1)
    /\ Counted(StoredPost)

---------------------------------------------------------------------------
(* The profile handlers that change the working copy without the writer:  *)
(* signature edit, new post, delete post, follow toggle                   *)

ProfileUserOf(signature, followed, followers) ==
    Obj([name |-> Str("U"), signature |-> Str(signature),
         is_followed_by_viewer |-> Bool(followed),
         stats |-> Obj([followers |-> Num(followers)])])
ProfilePostOf(id) == Obj([id |-> Str(id), body |-> Str("mine"), stats |-> Stats(0, 1, TRUE)])

\* the profile pages a store can hold
ProfilePages ==
    {Obj([profile_user |-> ProfileUserOf("sig", FALSE, 0),
          posts |-> Arr(<<ProfilePostOf("p1")>>)]),
     Obj([profile_user |-> ProfileUserOf("sig", TRUE, 1),
          posts |-> Arr(<<ProfilePostOf("p1"), ProfilePostOf("p2")>>)]),
     Obj([posts |-> Arr(<<ProfilePostOf("p1")>>)])}

ProfileStores ==
    {[sc \in Scopes |->
         IF sc = "message" THEN Obj([stat_data |-> Obj([user_profile_page |-> page])])
         ELSE EmptyObj] : page \in ProfilePages}

InitProfile ==
    /\ env \in Envs
    /\ store \in ProfileStores
    /\ mounted = FALSE
    /\ data = EmptyObj
    /\ feedPosts = EmptyArr
    /\ userPosts = EmptyArr
    /\ calls = <<>>
    /\ ops = 0
    /\ lastCall = NoCall
    /\ ProfileIdle
    /\ DmIdle
    /\ CacheIdle
    /\ fnIn = Undef
    /\ fnOut = Undef
    /\ fnPrev = Undef
    /\ fnOp = "none"

\* the effect on data.user_profile_page: the signature, the follow state
\* and the follower count are reset from the model
ProfileFrom(d) ==
    [signature |-> Coalesce(Get(d, <<K("user_profile_page"), K("profile_user"), K("signature")>>),
                            Str("")).v,
     followed |-> Truthy(Get(d, <<K("user_profile_page"), K("profile_user"),
                                   K("is_followed_by_viewer")>>)),
     followers |-> Coalesce(Get(d, <<K("user_profile_page"), K("profile_user"), K("stats"),
                                      K("followers")>>), Num(0)).v]

\* the profile state after a refreshData; `always` is the run of the
\* effects at mount
ProfileRefreshed(r, always) ==
    /\ Refreshed(r)
    /\ IF always \/ (r.read /\ ~r.raised
                       /\ DepChanged(Prop(data, "user_profile_page"),
                                      Prop(r.m.data, "user_profile_page")))
       THEN /\ userSignature' = ProfileFrom(r.m.data).signature
            /\ profileFollowed' = ProfileFrom(r.m.data).followed
            /\ profileFollowerCount' = ProfileFrom(r.m.data).followers
       ELSE UNCHANGED <<userSignature, profileFollowed, profileFollowerCount>>

ProfileFrame == UNCHANGED <<env, calls, lastCall, fnVars, dmVars, cacheVars>>

ProfileMount ==
    /\ ~mounted
    /\ mounted' = TRUE
    /\ \E r \in {refreshData(Now, {})} : ~r.raised /\ ProfileRefreshed(r, TRUE)
    /\ UNCHANGED <<ops, lastEdit>>
    /\ ProfileFrame

\* a change notification of the host runs refreshData()
ProfileNotify ==
    /\ mounted
    /\ \E r \in {refreshData(Now, {})} :
           /\ ~r.raised
           /\ ProfileRefreshed(r, FALSE)
           /\ lastEdit' = IF lastEdit.handler = "none" THEN lastEdit
                          ELSE [lastEdit EXCEPT !.refreshed = @ \/ r.read]
    /\ UNCHANGED <<mounted, ops>>
    /\ ProfileFrame

\* a profile handler ran: what it left in the working copy; none of the
\* four handlers calls updateStatData
Edited(handler) ==
    /\ mounted
    /\ ops < MaxProfileOps
    /\ ops' = ops + 1
    /\ lastEdit' = [handler |-> handler, writer |-> FALSE, refreshed |-> FALSE,
                    kept |-> <<userPosts', userSignature', profileFollowed', profileFollowerCount'>>]
    /\ UNCHANGED <<mounted, store, data, feedPosts>>
    /\ ProfileFrame

\* next.trim() of the texts typed into the prompt
SignatureInputs == {" new "}
Trim(text) ==
    CASE text = " new " -> "new"
      [] text = "  " -> ""
      [] text = " @b " -> "@b"
      [] text = " hi " -> "hi"
      [] OTHER -> text

handleEditSignature(next) ==
    /\ userSignature' = Trim(next)
    /\ UNCHANGED <<userPosts, profileFollowed, profileFollowerCount>>
    /\ Edited("handleEditSignature")

\* the post handleNewPostSubmit builds; the id is `local-${Date.now()}`
NewPost(body, stamp) ==
    Obj([id |-> Str("local-" \o ToString(stamp)), body |-> Str(body),
         image_caption |-> Undef,
         stats |-> Obj([comments |-> Num(0), likes |-> Num(0), is_liked_by_viewer |-> Bool(FALSE)]),
         comments_data |-> EmptyArr])

handleNewPostSubmit(body) ==
    /\ Trim(body) # ""
    /\ userPosts' = Arr(<<NewPost(Trim(body), ops + 1)>> \o userPosts.v)
    /\ UNCHANGED <<userSignature, profileFollowed, profileFollowerCount>>
    /\ Edited("handleNewPostSubmit")

\* prev.filter((post) => post.id !== postId)
WithoutPost(posts, postId) ==
    Arr(SelectSeq(posts.v, LAMBDA post : post # Hole /\ Prop(post, "id") # Str(postId)))

handleDeletePost(postId) ==
    /\ \E j \in DOMAIN userPosts.v : Prop(userPosts.v[j], "id") = Str(postId)
    /\ userPosts' = WithoutPost(userPosts, postId)
    /\ UNCHANGED <<userSignature, profileFollowed, profileFollowerCount>>
    /\ Edited("handleDeletePost")

handleProfileFollowToggle ==
    /\ profileFollowed' = ~profileFollowed
    /\ profileFollowerCount' =
           Max0(profileFollowerCount + (IF profileFollowed THEN -1 ELSE 1))
    /\ UNCHANGED <<userPosts, userSignature>>
    /\ Edited("handleProfileFollowToggle")

NextProfile ==
    \/ ProfileMount
    \/ ProfileNotify
    \/ \E next \in SignatureInputs : handleEditSignature(next)
    \/ \E body \in {"post"} : handleNewPostSubmit(body)
    \/ \E postId \in {"p1", "p2", "local-1"} : handleDeletePost(postId)
    \/ handleProfileFollowToggle

SpecProfile == InitProfile /\ [][NextProfile]_vars

---------------------------------------------------------------------------
(* The conversation cache: the cache load effect, the debounced cache      *)
(* write effect, and the handlers that change the partner or the list     *)

\* the handles of the friend list, and the partner of the backend's thread
Partners == {"@a", "@b"}
BackendPartner == "@p"
Keys == Partners \cup {BackendPartner}

\* a message: the content names the conversation it was written in
Message(sender, key, n) == [sender_handle |-> sender, content |-> <<key, n>>]
ViewerHandle == "@you"

\* what the backend supplies: no thread and no partner, or a partner with a
\* thread of one message
DmBackends ==
    {[partner |-> NoPartner, thread |-> NoThread],
     [partner |-> BackendPartner,
      thread |-> ThreadOf(<<Message(BackendPartner, BackendPartner, 0)>>)]}

\* the records the object store can hold at mount; no messages stands for
\* no record
NoRecords == [k \in Keys |-> <<>>]
Caches ==
    {NoRecords,
     [NoRecords EXCEPT !["@a"] = <<Message("@a", "@a", 0), Message(ViewerHandle, "@a", 1)>>],
     [NoRecords EXCEPT ![BackendPartner] =
         <<Message(BackendPartner, BackendPartner, 0), Message(ViewerHandle, BackendPartner, 1)>>]}

\* activeDmPartner.handle || activeDmPartner.name || ''
DmKeyOf(override) == IF override # NoPartner THEN override ELSE dmPartner
dmKey == DmKeyOf(dmPartnerOverride)
hasActivePartner == dmKey # NoPartner

\* an entry of the log: a run of the write effect ("change"), a completed
\* cache read that was not cancelled ("load"), a cache write ("write")
Event(e, key, messages, record) ==
    [e |-> e, key |-> key, messages |-> messages, record |-> record, at |-> now]

\* the write effect's cleanup doing nothing
ClearTimeout_noop(pending, handle) == pending

\* window.clearTimeout(timer)
ClearTimeout(pending, handle) == pending \ {handle}

\* the cache write effect for a key and a list: the cleanup of its previous
\* run, then its body
WriteEffect(key, messages) ==
    LET scheduled == [key |-> key, messages |-> messages, due |-> now + DebounceMs] IN
    IF key = NoPartner
    THEN /\ timers' = ClearTimeout(timers, timer)
         /\ timer' = NoTimer
         /\ dmLog' = dmLog
    ELSE /\ timers' = ClearTimeout(timers, timer) \cup {scheduled}
         /\ timer' = scheduled
         /\ dmLog' = Append(dmLog, Event("change", key, messages, <<>>))

\* the cache load effect for a key: the cleanup of its previous run sets
\* cancelled, then readNpcChat(key) is started
Cancelled(ls) == {[l EXCEPT !.cancelled = TRUE] : l \in ls}
LoadEffect(key) ==
    loads' = Cancelled(loads) \cup
             (IF key = NoPartner THEN {} ELSE {[key |-> key, cancelled |-> FALSE]})

InitDm ==
    /\ AppIdle
    /\ ProfileIdle
    /\ CacheIdle
    /\ fnIn = Undef
    /\ fnOut = Undef
    /\ fnPrev = Undef
    /\ fnOp = "none"
    /\ dmMounted = "no"
    /\ \E b \in DmBackends :
           /\ dmPartner = b.partner
           /\ dmThread = b.thread
           /\ dmMessages = b.thread.messages
           /\ dmFromThread = b.thread.present
    /\ dmPartnerOverride = NoPartner
    /\ cache \in Caches
    /\ timers = {}
    /\ timer = NoTimer
    /\ loads = {}
    /\ now = 0
    /\ dmLog = <<>>
    /\ dmOps = 0

DmFrame == UNCHANGED <<appVars, fnVars, profileVars, cacheVars, dmPartner, dmThread>>

\* the first run of the effects
DmMount ==
    /\ dmMounted = "no"
    /\ dmMounted' = "yes"
    /\ LoadEffect(dmKey)
    /\ WriteEffect(dmKey, dmMessages)
    /\ UNCHANGED <<dmPartnerOverride, dmMessages, dmFromThread, cache, now, dmOps>>
    /\ DmFrame

\* setDmPartnerOverride(next) and the effects that depend on dmKey
SetOverride(next) ==
    /\ dmPartnerOverride' = next
    /\ IF DmKeyOf(next) # dmKey
       THEN LoadEffect(DmKeyOf(next)) /\ WriteEffect(DmKeyOf(next), dmMessages)
       ELSE UNCHANGED <<loads, timers, timer, dmLog>>
    /\ dmOps' = dmOps + 1
    /\ UNCHANGED <<dmMounted, dmMessages, dmFromThread, cache, now>>
    /\ DmFrame

\* a click on an entry of the friend list, shown while there is no partner
SelectMatch(partner) ==
    /\ dmMounted = "yes"
    /\ dmOps < MaxDmOps
    /\ ~hasActivePartner
    /\ SetOverride(partner)

\* the back button of the conversation header while a partner is active
DmBack ==
    /\ dmMounted = "yes"
    /\ dmOps < MaxDmOps
    /\ hasActivePartner
    /\ dmPartnerOverride # NoPartner
    /\ SetOverride(NoPartner)

\* openDm(fromView) from the user or profile view: no partner is passed
openDm ==
    /\ dmMounted = "yes"
    /\ dmOps < MaxDmOps
    /\ dmPartnerOverride # NoPartner
    /\ SetOverride(NoPartner)

\* Enter in the message input: the viewer's message is appended
handleDmKeyDown ==
    /\ dmMounted = "yes"
    /\ dmOps < MaxDmOps
    /\ hasActivePartner
    /\ dmMessages' = Append(dmMessages, Message(ViewerHandle, dmKey, dmOps + 1))
    /\ dmFromThread' = FALSE
    /\ WriteEffect(dmKey, dmMessages')
    /\ dmOps' = dmOps + 1
    /\ UNCHANGED <<dmMounted, dmPartnerOverride, cache, loads, now>>
    /\ DmFrame

\* the updater of setDmMessages: the record's list when it is longer than
\* data.direct_message_thread?.messages ?? current, that base otherwise
Adopted(record) ==
    LET base == IF dmThread.present THEN dmThread.messages ELSE dmMessages
    IN IF Len(record) > Len(base) THEN record ELSE base

\* the updater of setDmMessages returned another array than the current one
AdoptsNewArray(record) ==
    LET base == IF dmThread.present THEN dmThread.messages ELSE dmMessages
    IN Len(record) > Len(base) \/ (dmThread.present /\ ~dmFromThread)

\* if (cancelled || !record?.messages?.length) return;
Adopting(l) == ~l.cancelled /\ cache[l.key] # <<>>

\* `await readNpcChat(dmKey)` of a load completes
LoadDone(l) ==
    /\ l \in loads
    /\ loads' = loads \ {l}
    /\ IF Adopting(l)
       THEN /\ dmMessages' = Adopted(cache[l.key])
            /\ dmFromThread' = (dmThread.present /\ Len(cache[l.key]) <= Len(dmThread.messages))
            /\ IF AdoptsNewArray(cache[l.key])
               THEN \E scheduled \in {[key |-> dmKey, messages |-> dmMessages',
                                        due |-> now + DebounceMs]} :
                        /\ timers' = ClearTimeout(timers, timer) \cup {scheduled}
                        /\ timer' = scheduled
                        /\ dmLog' = dmLog \o
                               <<Event("load", l.key, dmMessages', cache[l.key]),
                                 Event("change", dmKey, dmMessages', <<>>)>>
               ELSE /\ dmLog' = Append(dmLog, Event("load", l.key, dmMessages', cache[l.key]))
                    /\ UNCHANGED <<timers, timer>>
       ELSE /\ dmLog' = IF l.cancelled THEN dmLog
                        ELSE Append(dmLog, Event("load", l.key, dmMessages, cache[l.key]))
            /\ UNCHANGED <<dmMessages, dmFromThread, timers, timer>>
    /\ UNCHANGED <<dmMounted, dmPartnerOverride, cache, now, dmOps>>
    /\ DmFrame

\* a timer callback runs: writeNpcChat(dmKey, dmMessages) of its closure
TimerFire(t) ==
    /\ t \in timers
    /\ now >= t.due
    /\ timers' = timers \ {t}
    /\ cache' = [cache EXCEPT ![t.key] = t.messages]
    /\ dmLog' = Append(dmLog, Event("write", t.key, t.messages, <<>>))
    /\ UNCHANGED <<dmMounted, dmPartnerOverride, dmMessages, dmFromThread, timer, loads, now, dmOps>>
    /\ DmFrame

\* time passes; a timer that is due runs before the clock moves on
Tick ==
    /\ now + TickMs <= MaxTime
    /\ \A t \in timers : now < t.due
    /\ now' = now + TickMs
    /\ UNCHANGED <<dmMounted, dmPartnerOverride, dmMessages, dmFromThread, cache, timers, timer,
                   loads, dmLog, dmOps>>
    /\ DmFrame

\* refreshData() delivers the backend's thread again, as a new array: the
\* effect on data.direct_message_thread, the load effect, the write effect
DmRefresh ==
    /\ dmMounted = "yes"
    /\ dmOps < MaxDmOps
    /\ dmThread.present
    /\ dmMessages' = dmThread.messages
    /\ dmFromThread' = TRUE
    /\ LoadEffect(dmKey)
    /\ WriteEffect(dmKey, dmMessages')
    /\ dmOps' = dmOps + 1
    /\ UNCHANGED <<dmMounted, dmPartnerOverride, cache, now>>
    /\ DmFrame

\* the component is torn down: the cleanups of both effects
DmUnmount ==
    /\ dmMounted = "yes"
    /\ dmMounted' = "gone"
    /\ loads' = Cancelled(loads)
    /\ timers' = ClearTimeout(timers, timer)
    /\ UNCHANGED <<dmPartnerOverride, dmMessages, dmFromThread, cache, timer, now, dmLog, dmOps>>
    /\ DmFrame

NextDm ==
    \/ DmMount
    \/ \E partner \in Partners : SelectMatch(partner)
    \/ DmBack
    \/ openDm
    \/ handleDmKeyDown
    \/ \E l \in loads : LoadDone(l)
    \/ \E t \in timers : TimerFire(t)
    \/ Tick
    \/ DmRefresh
    \/ DmUnmount

SpecDm == InitDm /\ [][NextDm]_vars

\* time passes beyond the end of the user's activity while a timer waits
Elapse ==
    /\ now + TickMs > MaxTime
    /\ timers # {}
    /\ \A t \in timers : now < t.due
    /\ now' = now + TickMs
    /\ UNCHANGED <<dmMounted, dmPartnerOverride, dmMessages, dmFromThread, cache, timers, timer,
                   loads, dmLog, dmOps>>
    /\ DmFrame

\* the conversation view while it stays mounted and its conversation stays
\* open: the clock runs on, every due timer fires and every cache read
\* completes
NextDmOpen ==
    \/ DmMount
    \/ \E partner \in Partners : SelectMatch(partner)
    \/ handleDmKeyDown
    \/ \E l \in loads : LoadDone(l)
    \/ \E t \in timers : TimerFire(t)
    \/ Tick
    \/ Elapse
    \/ DmRefresh

SpecDmOpen ==
    /\ InitDm
    /\ [][NextDmOpen]_vars
    /\ WF_vars(Tick \/ Elapse)
    /\ WF_vars(\E t \in timers : TimerFire(t))
    /\ WF_vars(\E l \in loads : LoadDone(l))

---------------------------------------------------------------------------
(* Cache records: normalizeNpcChatRecord and the list an imported file    *)
(* holds                                                                  *)

\* String(value)
ToStr(value) ==
    CASE value.t = "str" -> value.v
      [] value.t = "num" -> ToString(value.v)
      [] value.t = "bool" -> IF value.v THEN "true" ELSE "false"
      [] value.t = "null" -> "null"
      [] value.t = "undef" -> "undefined"
      [] value.t = "arr" -> IF value.v = <<>> THEN "" ELSE "[array]"
      [] OTHER -> "[object Object]"

\* Number(value) of the values updated_at takes
NaN == [t |-> "nan"]
ToNumber(value) ==
    CASE value.t = "num" -> value
      [] value.t = "null" -> Num(0)
      [] value.t = "bool" -> Num(IF value.v THEN 1 ELSE 0)
      [] OTHER -> NaN

\* the callback of rawMessages.map: reading a property of null throws, a
\* message without sender or content becomes null
NormMessage(message) ==
    IF message.t \in {"null", "undef", "hole"} THEN Raised
    ELSE LET sender == ToStr(Coalesce(Prop(message, "sender_handle"), Str("")))
             content == ToStr(Coalesce(Prop(message, "content"), Str("")))
         IN IF sender = "" \/ content = "" THEN Null
            ELSE Obj([sender_handle |-> Str(sender),
                      content |-> Str(content),
                      is_read |-> IF Prop(message, "is_read").t = "bool"
                                  THEN Prop(message, "is_read") ELSE Undef,
                      timestamp |-> IF Prop(message, "timestamp").t = "str"
                                    THEN Prop(message, "timestamp") ELSE Undef])

\* .map(...).filter((item) => !!item), or the exception of the callback
NormMessages(raw) ==
    LET mapped == [j \in DOMAIN raw |-> NormMessage(raw[j])] IN
    IF \E j \in DOMAIN mapped : mapped[j] = Raised THEN Raised
    ELSE Arr(SelectSeq(mapped, LAMBDA item : item # Null))

\* normalizeNpcChatRecord(input) at time stamp: the record, null, or the
\* exception of the message callback
normalizeNpcChatRecord(input, stamp) ==
    IF ~Truthy(input) \/ input.t \notin {"obj", "arr"} THEN Null
    ELSE LET key == Trim(ToStr(Coalesce(Coalesce(Prop(input, "key"), Prop(input, "npc_key")),
                                        Str(""))))
             rawMessages == IF Prop(input, "messages").t = "arr"
                            THEN Prop(input, "messages").v ELSE <<>>
         IN IF key = "" THEN Null
            ELSE IF NormMessages(rawMessages) = Raised THEN Raised
            ELSE Obj([key |-> Str(key),
                      updated_at |-> ToNumber(Coalesce(Prop(input, "updated_at"), Num(stamp))),
                      messages |-> NormMessages(rawMessages)])

\* Array.isArray(parsed) ? parsed : parsed?.chats ?? []
ImportList(parsed) ==
    IF parsed.t = "arr" THEN parsed ELSE Coalesce(Prop(parsed, "chats"), EmptyArr)

\* list.map(normalizeNpcChatRecord).filter((item) => !!item): the valid
\* records in the order of the file; calling map on something that is not
\* an array throws, and so does a message callback
Normalized(list, stamp) ==
    IF list.t # "arr" THEN Raised
    ELSE LET mapped == [j \in DOMAIN list.v |-> normalizeNpcChatRecord(list.v[j], stamp)] IN
         IF \E j \in DOMAIN mapped : mapped[j] = Raised THEN Raised
         ELSE Arr(SelectSeq(mapped, LAMBDA item : item # Null))

---------------------------------------------------------------------------
(* The cache operations: the load and write effects, delete, import and   *)
(* export, each transaction succeeding or failing                         *)

\* a message as handleSendAllMessages builds it
Msg(sender, content) ==
    Obj([sender_handle |-> Str(sender), content |-> Str(content), is_read |-> Bool(FALSE),
         timestamp |-> Str("12:00")])

\* store.put({ key, updated_at: Date.now(), messages })
Record(key, stamp, messages) ==
    Obj([key |-> Str(key), updated_at |-> Num(stamp), messages |-> messages])
PutRecord(st, key, stamp, messages) == WithMember(st, key, Record(key, stamp, messages))

\* a delete that empties the store when the key has no record
DeleteRecord_all(st, key) == IF key \in DOMAIN st THEN [k \in DOMAIN st \ {key} |-> st[k]] ELSE <<>>

\* store.delete(key)
DeleteRecord(st, key) == [k \in DOMAIN st \ {key} |-> st[k]]

\* store.get(key) ?? null
GetRecord(st, key) == IF key \in DOMAIN st THEN st[key] ELSE Null

\* listNpcChats leaving out the records without messages
AllRecords_nonEmpty(st) ==
    LET keys == KeysOf({k \in DOMAIN st : Length(Prop(st[k], "messages")) > 0})
    IN Arr([j \in DOMAIN keys |-> st[keys[j]]])

\* store.getAll(): the records in the order of their keys
AllRecords(st) == LET keys == KeysOf(DOMAIN st) IN Arr([j \in DOMAIN keys |-> st[keys[j]]])

\* activeDmPartner.handle || activeDmPartner.name || ''
ChatKey(c) == IF c.override # NoPartner THEN c.override ELSE c.partner

\* something that is pending: a cache transaction or the debounce timer
Job(op, key, messages, records) ==
    [op |-> op, key |-> key, messages |-> messages, records |-> records, at |-> cacheOps]

\* the last cache event: what happened, for which key, and the file or
\* the records it was about
CacheEv(e, key, detail) == [e |-> e, key |-> key, detail |-> detail]

\* the write effect without its test of the key
WriteEff_noKeyTest(pending, key, messages) ==
    {j \in pending : j.op # "timer"} \cup {Job("timer", key, messages, <<>>)}

\* the write effect: clearTimeout of its previous run, then, for a
\* non-empty key, a new timer over the key and the list
WriteEff(pending, key, messages) ==
    {j \in pending : j.op # "timer"}
        \cup (IF key = NoPartner THEN {} ELSE {Job("timer", key, messages, <<>>)})

\* the load effect: the cleanup of its previous run sets cancelled, which
\* makes that read return without a change whatever it finds, so it is no
\* longer pending; then, for a non-empty key, readNpcChat(key) is started
LoadEff(pending, key) ==
    {j \in pending : j.op # "load"}
        \cup (IF key = NoPartner THEN {} ELSE {Job("load", key, EmptyArr, <<>>)})

\* what the backend supplies: no partner and no thread, or a partner with a
\* thread of one message
ChatBackends ==
    {[partner |-> NoPartner, thread |-> Undef],
     [partner |-> BackendPartner, thread |-> Arr(<<Msg(BackendPartner, "hello")>>)]}

\* the object store at mount
RecordA == Record("@a", 0, Arr(<<Msg("@a", "one"), Msg(ViewerHandle, "two")>>))
RecordP == Record(BackendPartner, 0, Arr(<<Msg(BackendPartner, "hello"), Msg(ViewerHandle, "hi")>>))
CacheStores == {<<>>, WithMember(WithMember(<<>>, "@a", RecordA), BackendPartner, RecordP)}

InitCache ==
    /\ AppIdle
    /\ ProfileIdle
    /\ DmIdle
    /\ fnIn = Undef
    /\ fnOut = Undef
    /\ fnPrev = Undef
    /\ fnOp = "none"
    /\ npcStore \in CacheStores
    /\ \E b \in ChatBackends :
           chat = [NoChat EXCEPT !.partner = b.partner, !.thread = b.thread,
                                 !.messages = Coalesce(b.thread, EmptyArr),
                                 !.fromThread = (b.thread # Undef)]
    /\ pendingOps = {}
    /\ exportFile = <<>>
    /\ cacheEvent = NoCacheEvent
    /\ cacheOps = 0

CacheFrame == UNCHANGED <<appVars, fnVars, profileVars, dmVars>>

\* the first run of the load effect and of the write effect
CacheMount ==
    /\ ~chat.mounted
    /\ chat' = [chat EXCEPT !.mounted = TRUE]
    /\ pendingOps' = WriteEff(LoadEff(pendingOps, ChatKey(chat)), ChatKey(chat), chat.messages)
    /\ UNCHANGED <<npcStore, exportFile, cacheEvent, cacheOps>>
    /\ CacheFrame

\* a user operation on the mounted component
UserOp ==
    /\ chat.mounted
    /\ cacheOps < MaxCacheOps
    /\ cacheOps' = cacheOps + 1
    /\ CacheFrame

\* setDmPartnerOverride(next) and the effects that depend on dmKey
ChatOverride(next) ==
    /\ chat' = [chat EXCEPT !.override = next]
    /\ pendingOps' =
           IF ChatKey(chat') # ChatKey(chat)
           THEN WriteEff(LoadEff(pendingOps, ChatKey(chat')), ChatKey(chat'), chat.messages)
           ELSE pendingOps
    /\ UNCHANGED <<npcStore, exportFile, cacheEvent>>
    /\ UserOp

\* a click on an entry of the friend list, shown while there is no partner
ChatSelect(partner) == ChatKey(chat) = NoPartner /\ ChatOverride(partner)

\* the back button of the conversation header
ChatBack == chat.override # NoPartner /\ ChatOverride(NoPartner)

\* typing into the message input
handleDmInput(text) ==
    /\ ChatKey(chat) # NoPartner
    /\ chat.input # text
    /\ chat' = [chat EXCEPT !.input = text]
    /\ UNCHANGED <<npcStore, pendingOps, exportFile, cacheEvent>>
    /\ UserOp

handleStageMessage ==
    /\ ChatKey(chat) # NoPartner
    /\ Trim(chat.input) # ""
    /\ chat' = [chat EXCEPT !.staged = Append(@, Trim(chat.input)), !.input = ""]
    /\ UNCHANGED <<npcStore, pendingOps, exportFile, cacheEvent>>
    /\ UserOp

\* the staged messages and the input are appended to the list
handleSendAllMessages ==
    LET payload == chat.staged \o (IF Trim(chat.input) # "" THEN <<Trim(chat.input)>> ELSE <<>>)
        sent == [j \in DOMAIN payload |-> Msg(ViewerHandle, payload[j])]
    IN
    /\ ChatKey(chat) # NoPartner
    /\ payload # <<>>
    /\ chat' = [chat EXCEPT !.messages = Arr(chat.messages.v \o sent), !.fromThread = FALSE,
                            !.staged = <<>>, !.input = ""]
    /\ pendingOps' = WriteEff(pendingOps, ChatKey(chat), chat'.messages)
    /\ UNCHANGED <<npcStore, exportFile, cacheEvent>>
    /\ UserOp

\* the timer callback: writeNpcChat(dmKey, dmMessages) of its closure, whose
\* transaction completes or fails; the failure is caught and logged
TimerDone(t, ok) ==
    /\ t \in pendingOps
    /\ t.op = "timer"
    /\ pendingOps' = pendingOps \ {t}
    /\ npcStore' = IF ok THEN PutRecord(npcStore, t.key, t.at, t.messages) ELSE npcStore
    /\ cacheEvent' = CacheEv(IF ok THEN "written" ELSE "write-failed", t.key, <<>>)
    /\ UNCHANGED <<chat, exportFile, cacheOps>>
    /\ CacheFrame

\* setDmMessages(next) without the write effect running again
ListSet_keepsTimer(next, fromThread, pending) ==
    /\ chat' = [chat EXCEPT !.messages = next, !.fromThread = fromThread]
    /\ pendingOps' = pending

\* setDmMessages(next) by something that settled: the list, whether it is
\* the thread's own array, and the write effect when the array is another
\* one than before
ListSet(next, fromThread, pending) ==
    /\ chat' = [chat EXCEPT !.messages = next, !.fromThread = fromThread]
    /\ pendingOps' =
           IF fromThread /\ chat.fromThread THEN pending
           ELSE WriteEff(pending, ChatKey(chat), next)

\* the load catching the failure of its read and leaving the list empty
LoadFailed_clears(pending) ==
    /\ chat' = [chat EXCEPT !.messages = EmptyArr, !.fromThread = FALSE]
    /\ pendingOps' = pending

\* the catch block of the load: console.warn
LoadFailed(pending) ==
    /\ chat' = chat
    /\ pendingOps' = pending

\* `await readNpcChat(dmKey)` of a load settles
LoadSettle(l, ok) ==
    LET record == GetRecord(npcStore, l.key)
        found == Prop(record, "messages")
        base == Coalesce(chat.thread, chat.messages)
        longer == Length(found) > Length(base)
        rest == pendingOps \ {l}
    IN
    /\ l \in pendingOps
    /\ l.op = "load"
    /\ IF ~ok THEN LoadFailed(rest)
       ELSE IF Length(found) = 0 THEN chat' = chat /\ pendingOps' = rest
       ELSE IF longer THEN ListSet(found, FALSE, rest)
       ELSE IF chat.thread # Undef THEN ListSet(base, TRUE, rest)
       ELSE chat' = chat /\ pendingOps' = rest
    /\ cacheEvent' = CacheEv(IF ok THEN "loaded" ELSE "load-failed", l.key, <<>>)
    /\ UNCHANGED <<npcStore, exportFile, cacheOps>>
    /\ CacheFrame

\* handleDeleteNpcChat up to its await: nothing without a key or without
\* the user's confirmation
handleDeleteNpcChat(confirmed) ==
    /\ pendingOps' =
           IF ChatKey(chat) = NoPartner \/ ~confirmed THEN pendingOps
           ELSE pendingOps \cup {Job("delete", ChatKey(chat), Coalesce(chat.thread, EmptyArr), <<>>)}
    /\ UNCHANGED <<npcStore, chat, exportFile, cacheEvent>>
    /\ UserOp

\* `await deleteNpcChat(dmKey)` settles: the list is reset to the thread of
\* the handler's closure, the staged messages and the input are cleared
DeleteSettle(d, ok) ==
    /\ d \in pendingOps
    /\ d.op = "delete"
    /\ npcStore' = IF ok THEN DeleteRecord(npcStore, d.key) ELSE npcStore
    /\ IF ok
       THEN /\ chat' = [chat EXCEPT !.messages = d.messages, !.fromThread = (chat.thread # Undef),
                                    !.staged = <<>>, !.input = ""]
            /\ pendingOps' =
                   IF chat.thread # Undef /\ chat.fromThread THEN pendingOps \ {d}
                   ELSE WriteEff(pendingOps \ {d}, ChatKey(chat), d.messages)
       ELSE /\ chat' = chat
            /\ pendingOps' = pendingOps \ {d}
    /\ cacheEvent' = CacheEv(IF ok THEN "deleted" ELSE "delete-failed", d.key, <<>>)
    /\ UNCHANGED <<exportFile, cacheOps>>
    /\ CacheFrame

\* records of imported files
SentA == Obj([sender_handle |-> Str("@a"), content |-> Str("imported")])
ImportA == Obj([key |-> Str("@a"), updated_at |-> Num(1), messages |-> Arr(<<SentA>>)])
ImportA2 == Obj([key |-> Str("@a"), messages |-> Arr(<<SentA, SentA>>)])
ImportB == Obj([npc_key |-> Str(" @b "), messages |-> Arr(<<SentA>>)])
ImportBlankKey == Obj([key |-> Str("  "), messages |-> Arr(<<SentA>>)])
ImportBadMessages ==
    Obj([key |-> Str("@a"),
         messages |-> Arr(<<Str("text"), Obj([sender_handle |-> Str(""), content |-> Str("c")]),
                            Obj([sender_handle |-> Str("@a")]), SentA>>)])
ImportNullMessage == Obj([key |-> Str("@a"), messages |-> Arr(<<Null, SentA>>)])

\* the files the user can pick, as JSON texts: bare lists and a versioned
\* snapshot, and a text that is not JSON
ImportDocs ==
    {Arr(<<ImportA, ImportBlankKey, Num(7), ImportB>>),
     Obj([version |-> Num(1), chats |-> Arr(<<ImportBadMessages, ImportB>>)]),
     Arr(<<ImportNullMessage, ImportB>>),
     Arr(<<ImportA, ImportA2>>)}
ImportFiles == {JsonStringify(d) : d \in ImportDocs} \cup {TokTruncated}

\* the import up to `await Promise.all(...)`: the text is parsed, the list
\* is normalized and one write per valid record is started; an exception
\* on the way is caught and nothing is written
ImportedRecords(file, stamp) ==
    LET parsed == ParseTokens("json", file) IN
    IF parsed.ok THEN Normalized(ImportList(parsed.val), stamp) ELSE Raised

\* the same for the files of the model, computed once
ImportedFromFiles ==
    [file \in ImportFiles |-> [stamp \in 0..MaxCacheOps |-> ImportedRecords(file, stamp)]]

handleImportNpcChatsFile(file) ==
    LET normalized == IF file \in ImportFiles THEN ImportedFromFiles[file][cacheOps]
                      ELSE ImportedRecords(file, cacheOps)
    IN
    /\ pendingOps' =
           IF normalized = Raised THEN pendingOps
           ELSE pendingOps \cup {Job("import", ChatKey(chat), EmptyArr, normalized.v)}
    /\ cacheEvent' =
           CacheEv(IF normalized = Raised THEN "import-raised" ELSE "import", ChatKey(chat),
                   [file |-> file, at |-> cacheOps,
                    started |-> IF normalized = Raised THEN <<>> ELSE normalized.v])
    /\ UNCHANGED <<npcStore, chat, exportFile>>
    /\ UserOp

\* the writes of an import that completed, in the order they were started
RECURSIVE Upserted(_, _, _, _, _)
Upserted(st, records, failed, j, stamp) ==
    IF j > Len(records) THEN st
    ELSE Upserted(IF j \in failed THEN st
                  ELSE PutRecord(st, Prop(records[j], "key").v, stamp, Prop(records[j], "messages")),
                  records, failed, j + 1, stamp)

\* normalized.find((item) => item.key === dmKey)
FindRecord(records, key) ==
    IF \E j \in DOMAIN records : Prop(records[j], "key") = Str(key)
    THEN records[CHOOSE j \in DOMAIN records :
                    /\ Prop(records[j], "key") = Str(key)
                    /\ \A h \in 1..(j - 1) : Prop(records[h], "key") # Str(key)]
    ELSE Undef

\* `await Promise.all(...)` of an import settles: the writes in `failed`
\* failed; when none did, the record of the handler's dmKey is adopted
ImportSettle(i, failed) ==
    LET current == FindRecord(i.records, i.key) IN
    /\ i \in pendingOps
    /\ i.op = "import"
    /\ failed \subseteq DOMAIN i.records
    /\ npcStore' = Upserted(npcStore, i.records, failed, 1, i.at)
    /\ IF failed = {} /\ current # Undef
       THEN ListSet(Prop(current, "messages"), FALSE, pendingOps \ {i})
       ELSE chat' = chat /\ pendingOps' = pendingOps \ {i}
    /\ cacheEvent' = CacheEv(IF failed = {} THEN "imported" ELSE "import-failed", i.key, i.records)
    /\ UNCHANGED <<exportFile, cacheOps>>
    /\ CacheFrame

\* the payload of handleExportNpcChats
ExportPayload(chats, stamp) == Obj([version |-> Num(1), exported_at |-> Num(stamp), chats |-> chats])

\* handleExportNpcChats: listNpcChats() and the file with the payload, or
\* the caught failure of the read
handleExportNpcChats(ok) ==
    /\ exportFile' = IF ok THEN JsonStringify(ExportPayload(AllRecords(npcStore), cacheOps))
                      ELSE exportFile
    /\ cacheEvent' = CacheEv(IF ok THEN "exported" ELSE "export-failed", ChatKey(chat), <<>>)
    /\ UNCHANGED <<npcStore, chat, pendingOps>>
    /\ UserOp

NextCache ==
    \/ CacheMount
    \/ \E partner \in Partners : ChatSelect(partner)
    \/ ChatBack
    \/ handleDmInput(" hi ")
    \/ handleStageMessage
    \/ handleSendAllMessages
    \/ \E t \in pendingOps, ok \in BOOLEAN : TimerDone(t, ok)
    \/ \E l \in pendingOps, ok \in BOOLEAN : LoadSettle(l, ok)
    \/ \E confirmed \in BOOLEAN : handleDeleteNpcChat(confirmed)
    \/ \E d \in pendingOps, ok \in BOOLEAN : DeleteSettle(d, ok)
    \/ \E file \in ImportFiles \cup ({exportFile} \ {<<>>}) : handleImportNpcChatsFile(file)
    \/ \E i \in pendingOps : \E failed \in SUBSET DOMAIN i.records : ImportSettle(i, failed)
    \/ \E ok \in BOOLEAN : handleExportNpcChats(ok)

SpecCache == InitCache /\ [][NextCache]_vars

\* the timer callback alone: writeNpcChat(dmKey, dmMessages) is started and,
\* unlike the timer, can no longer be cleared by the write effect; the
\* previous write has completed by then
TimerStart(t) ==
    /\ t \in pendingOps
    /\ t.op = "timer"
    /\ \A w \in pendingOps : w.op # "write"
    /\ pendingOps' = (pendingOps \ {t}) \cup {[t EXCEPT !.op = "write", !.at = cacheOps]}
    /\ UNCHANGED <<npcStore, chat, exportFile, cacheEvent, cacheOps>>
    /\ CacheFrame

\* the transaction of a started write completes or fails
WriteDone(w, ok) ==
    /\ w \in pendingOps
    /\ w.op = "write"
    /\ pendingOps' = pendingOps \ {w}
    /\ npcStore' = IF ok THEN PutRecord(npcStore, w.key, w.at, w.messages) ELSE npcStore
    /\ cacheEvent' = CacheEv(IF ok THEN "written" ELSE "write-failed", w.key, <<>>)
    /\ UNCHANGED <<chat, exportFile, cacheOps>>
    /\ CacheFrame

\* transactions on the object store complete in the order they were
\* created: a read or a write started no later than the operation that
\* started an import completes before the import's writes, a later one
\* after them
NoneBefore(i) == \A j \in pendingOps : j.op \in {"load", "write"} => j.at > i.at
NoImportBefore(j) == \A i \in pendingOps : i.op = "import" => i.at >= j.at

\* files whose valid records have different keys
RaceFiles ==
    {JsonStringify(Arr(<<ImportA, ImportBlankKey, Num(7), ImportB>>)),
     JsonStringify(Obj([version |-> Num(1), chats |-> Arr(<<ImportBadMessages, ImportB>>)]))}

\* imports racing with the debounced write: the callback of the timer and
\* the completion of its write are separate steps
NextImport ==
    \/ CacheMount
    \/ \E partner \in Partners : ChatSelect(partner)
    \/ handleDmInput(" hi ")
    \/ handleSendAllMessages
    \/ \E t \in pendingOps : TimerStart(t)
    \/ \E w \in pendingOps, ok \in BOOLEAN : NoImportBefore(w) /\ WriteDone(w, ok)
    \/ \E l \in pendingOps, ok \in BOOLEAN : NoImportBefore(l) /\ LoadSettle(l, ok)
    \/ \E file \in RaceFiles : handleImportNpcChatsFile(file)
    \/ \E i \in pendingOps : \E failed \in SUBSET DOMAIN i.records :
           NoneBefore(i) /\ ImportSettle(i, failed)

\* the timer fires, and every transaction completes
SpecImport ==
    /\ InitCache
    /\ [][NextImport]_vars
    /\ WF_vars(\E t \in pendingOps : TimerStart(t))
    /\ WF_vars(\E w \in pendingOps, ok \in BOOLEAN : NoImportBefore(w) /\ WriteDone(w, ok))
    /\ WF_vars(\E l \in pendingOps, ok \in BOOLEAN : NoImportBefore(l) /\ LoadSettle(l, ok))
    /\ WF_vars(\E i \in pendingOps : \E failed \in SUBSET DOMAIN i.records :
                   NoneBefore(i) /\ ImportSettle(i, failed))

---------------------------------------------------------------------------
(* Claims about the reader and refreshData, checked under SpecRead *)

\* the scopes in the order of the generic backend; the message scope needs
\* a current message id
FixedOrder == <<"message", "chat", "character", "global">>

\* the scope was a miss in the read: its access threw, or none of its
\* probes gave a model
Miss(sc) == sc \in fnIn \/ ~Truthy(ProbeScope(store[sc]))

\* the read went to the generic backend
GenericRead ==
    fnOp = "read" /\ env.gen /\ ~Truthy(ReadMvu(store, fnIn)) /\ ~ScopesThrow(fnIn)

\* C13: with the generic backend the scopes are consulted in the fixed order
\* message (when a message id is resolvable), chat, character, global; the
\* result is the coercion of the first scope that yields a non-null one, every
\* scope before it was a miss, and no scope after it is read; null is
\* returned only after every scope was read and missed.
C13_FirstScopeWins ==
    GenericRead =>
        LET order == IF env.msgId THEN FixedOrder ELSE Tail(FixedOrder)
            consulted == fnPrev
        IN /\ IsPrefix(consulted, order)
           /\ consulted # <<>>
           /\ \A j \in 1..(Len(consulted) - 1) : Miss(consulted[j])
           /\ IF fnOut = Null
              THEN consulted = order /\ Miss(consulted[Len(consulted)])
              ELSE /\ ~Miss(consulted[Len(consulted)])
                   /\ fnOut = ProbeScope(store[consulted[Len(consulted)]])

\* the message scope threw, the chat scope won, and the character scope,
\* which holds a model too, was not read
C13_Witness ==
    /\ GenericRead
    /\ fnIn = {"message"}
    /\ fnPrev = <<"message", "chat">>
    /\ Prop(fnOut, "echo_chamber_feed") = ScopeFeed("chat")
    /\ Truthy(ProbeScope(store["character"]))
    /\ Truthy(ProbeScope(store["message"]))

\* the structured backend's candidate: stat_data.echo_chamber ?? stat_data of
\* the message document, coerced
MvuCandidate == StatRoot(Get(store["message"], <<K("stat_data")>>))

\* C14 as stated: when the structured backend is available (Mvu exists, its
\* read does not throw) and its candidate coerces to a model, the reader
\* returns that model and does not consult the generic backend.
C14_StructuredPreferred ==
    (fnOp = "read" /\ env.mvu /\ fnIn \cap {"mvu", "msgId"} = {} /\ Truthy(MvuCandidate)) =>
        (fnOut = MvuCandidate /\ fnPrev = <<>>)

\* C14 amended: the structured backend is read only when both Mvu and
\* getCurrentMessageId exist; then, when its read does not throw and its
\* candidate coerces to a model, the reader returns that model and makes no
\* getVariables call; the generic backend is consulted only when the
\* structured one is not read, throws, or yields null.
C14_StructuredPreferredWithMessageId ==
    fnOp = "read" =>
        LET hit == /\ env.mvu /\ env.msgId
                   /\ fnIn \cap {"mvu", "msgId"} = {}
                   /\ Truthy(MvuCandidate)
        IN /\ hit => (fnOut = MvuCandidate /\ fnPrev = <<>>)
           /\ fnPrev # <<>> => ~hit
           /\ (~hit /\ env.gen /\ ~ScopesThrow(fnIn)) => fnPrev # <<>>

\* both backends exist, getVariables throws for the message scope, the chat
\* scope holds another model, and the structured backend's model was returned
C14_Witness ==
    /\ fnOp = "read"
    /\ env.mvu /\ env.gen /\ env.msgId
    /\ fnIn = {"message"}
    /\ Prop(fnOut, "echo_chamber_feed") = ScopeFeed("message")
    /\ fnOut = MvuCandidate
    /\ Truthy(ProbeScope(store["chat"]))
    /\ fnPrev = <<>>

\* C15: readEchoChamberVariables never raises, whichever host access throws.
C15_ReaderNeverRaises == fnOp = "read" => fnOut # Raised

\* C16: when readEchoChamberVariables returns null, refreshData leaves the
\* canonical model and the working copies as they were and does not throw.
C16_NullKeepsModel ==
    (fnOp = "refresh" /\ readEchoChamberVariables(store, fnIn) = Null) =>
        (fnOut.m = Now /\ ~fnOut.raised /\ ~fnOut.read)

\* the component held a model and a locally changed working copy, the reader
\* found nothing, and both are still there
C16_Witness ==
    /\ fnOp = "refresh"
    /\ readEchoChamberVariables(store, fnIn) = Null
    /\ data = HeldModel
    /\ feedPosts # Get(data, <<K("echo_chamber_feed"), K("posts")>>)
    /\ fnOut.m.data = HeldModel
    /\ fnOut.m.feedPosts = feedPosts

\* C27: with the store unchanged, refreshData run again yields the same
\* canonical model as running it once, and a run that reads a model
\* replaces the snapshot wholesale: the new snapshot is what the same run
\* gives a component that held nothing.
C27_RefreshIdempotent ==
    /\ fnOp = "refresh2" => ~fnOut.raised /\ fnOut.m.data = fnPrev.m.data
    /\ (fnOp = "refresh" /\ fnOut.read /\ ~fnOut.raised) =>
           fnOut.m.data = refreshData(Machine(store, EmptyObj, EmptyArr, EmptyArr), fnIn).m.data

\* a component holding a model with a conversation thread read a model
\* without one, twice
C27_Witness ==
    /\ fnOp = "refresh2"
    /\ fnOut.read
    /\ Truthy(Prop(data, "direct_message_thread"))
    /\ ~Truthy(Prop(fnOut.m.data, "direct_message_thread"))
    /\ fnOut.m.data # data

---------------------------------------------------------------------------
(* Claims about the cache operations, checked under SpecCache *)

\* the job of kind op that settled in this step
Settled(op) == \E j \in pendingOps : j.op = op /\ j \notin pendingOps' /\ cacheOps' = cacheOps

\* C21: every cache record has a non-empty key: no cache read, write or
\* delete is pending for an empty conversation key, and an import upserts
\* no record whose key is empty or whitespace-only.
C21_KeysNonEmpty ==
    /\ \A k \in DOMAIN npcStore : k # "" /\ Prop(npcStore[k], "key") = Str(k)
    /\ \A j \in pendingOps :
           /\ j.op \in {"load", "timer", "delete"} => j.key # ""
           /\ \A h \in DOMAIN j.records : Trim(Prop(j.records[h], "key").v) # ""

\* without an open conversation a file with a blank key and a padded key
\* was imported: the padded key is stored trimmed, the blank one is not
C21_Witness ==
    /\ cacheEvent.e = "imported"
    /\ cacheEvent.key = ""
    /\ Len(cacheEvent.detail) = 2
    /\ Prop(cacheEvent.detail[2], "key") = Str("@b")
    /\ "@b" \in DOMAIN npcStore
    /\ ~\E j \in pendingOps : j.op \in {"load", "timer"}

\* a record of a file as the specification wants it: an object with a
\* non-empty key whose messages are objects with a sender and a content
WellFormedMessage(message) ==
    /\ message.t = "obj"
    /\ ToStr(Coalesce(Prop(message, "sender_handle"), Str(""))) # ""
    /\ ToStr(Coalesce(Prop(message, "content"), Str(""))) # ""
WellFormed(item) ==
    /\ item.t = "obj"
    /\ Trim(ToStr(Coalesce(Coalesce(Prop(item, "key"), Prop(item, "npc_key")), Str("")))) # ""
    /\ Prop(item, "messages").t = "arr" =>
           \A j \in DOMAIN Prop(item, "messages").v : WellFormedMessage(Prop(item, "messages").v[j])
KeyOf(item) == Trim(ToStr(Coalesce(Coalesce(Prop(item, "key"), Prop(item, "npc_key")), Str(""))))
BatchOf(file) == ImportList(ParseTokens("json", file).val)

\* C22: a malformed record of an imported batch (not an object, empty key,
\* or a message that is not an object or has an empty sender or content)
\* never prevents the valid records of the batch from being written: the
\* import starts the write of every well-formed record.
C22_MalformedDiscardedAlone ==
    (cacheEvent.e \in {"import", "import-raised"}
        /\ ParseTokens("json", cacheEvent.detail.file).ok
        /\ BatchOf(cacheEvent.detail.file).t = "arr") =>
        LET batch == BatchOf(cacheEvent.detail.file).v
            started == cacheEvent.detail.started
        IN {KeyOf(batch[j]) : j \in {h \in DOMAIN batch : WellFormed(batch[h])}}
               \subseteq {Prop(started[j], "key").v : j \in DOMAIN started}

\* C23: when the writes of an import have succeeded, the active list is
\* the messages of a record of the batch whose key is the key of the open
\* conversation; without such a record the import leaves the list as it was.
C23_ImportAdoptsOpenConversation ==
    [][(Settled("import") /\ cacheEvent'.e = "imported") =>
          LET records == cacheEvent'.detail
              matching == {j \in DOMAIN records : Prop(records[j], "key") = Str(ChatKey(chat'))}
          IN IF matching = {} THEN chat'.messages = chat.messages
             ELSE \E j \in matching : chat'.messages = Prop(records[j], "messages")]_vars

\* what a JSON text can carry of a value: members that are undefined are
\* not written
RECURSIVE JsonView(_)
JsonView(value) ==
    CASE value.t = "arr" -> Arr([j \in DOMAIN value.v |-> JsonView(value.v[j])])
      [] value.t = "obj" ->
            Obj([k \in {h \in DOMAIN value.v : value.v[h] # Undef} |-> JsonView(value.v[k])])
      [] OTHER -> value

\* the file is an export of an empty cache
EmptyExport(file) ==
    /\ ParseTokens("json", file).ok
    /\ Prop(ParseTokens("json", file).val, "version") = Num(1)
    /\ Prop(ParseTokens("json", file).val, "chats") = EmptyArr

\* C24: the exported payload has version 1 and its chats are exactly the
\* records the cache holds at export time, each as stored; export never
\* modifies the cache; importing the export of an empty cache raises
\* nothing, starts no write and leaves the cache as it is.
C24_ExportSnapshot ==
    [][/\ (cacheOps' = cacheOps + 1 /\ exportFile' # exportFile) =>
            /\ Prop(ParseTokens("json", exportFile').val, "version") = Num(1)
            /\ LET chats == Prop(ParseTokens("json", exportFile').val, "chats") IN
                   /\ chats.t = "arr"
                   /\ Len(chats.v) = Cardinality(DOMAIN npcStore)
                   /\ {chats.v[j] : j \in DOMAIN chats.v}
                          = {JsonView(npcStore[k]) : k \in DOMAIN npcStore}
            /\ DOMAIN ParseTokens("json", exportFile').val.v = {"version", "exported_at", "chats"}
            /\ npcStore' = npcStore
            /\ DOMAIN npcStore = {} => EmptyExport(exportFile')
       /\ (cacheOps' = cacheOps + 1
              /\ cacheEvent'.e \in {"import", "import-raised"}
              /\ cacheEvent'.detail.at = cacheOps
              /\ EmptyExport(cacheEvent'.detail.file)) =>
            /\ cacheEvent'.e = "import"
            /\ cacheEvent'.detail.started = <<>>
            /\ npcStore' = npcStore
       /\ (Settled("import") /\ cacheEvent'.detail = <<>>) =>
            /\ cacheEvent'.e = "imported"
            /\ npcStore' = npcStore]_vars

\* the export of an empty cache was imported and its import has settled
C24_Witness ==
    /\ exportFile # <<>>
    /\ EmptyExport(exportFile)
    /\ cacheEvent.e = "imported"
    /\ cacheEvent.detail = <<>>
    /\ DOMAIN npcStore = {}

\* C25: a cache transaction that fails changes nothing in memory: a failed
\* load and a failed debounced write leave the active list as it was, a
\* failed delete leaves the list, the staged messages and the input as they
\* were; the failure is caught where it happens.
C25_FailureIsNoOp ==
    [][/\ (Settled("load") /\ cacheEvent'.e = "load-failed") => chat'.messages = chat.messages
       /\ (Settled("timer") /\ cacheEvent'.e = "write-failed") => chat'.messages = chat.messages
       /\ (Settled("delete") /\ cacheEvent'.e = "delete-failed") =>
              /\ chat'.messages = chat.messages
              /\ chat'.staged = chat.staged
              /\ chat'.input = chat.input
       /\ cacheEvent'.e \in {"load-failed", "write-failed", "delete-failed"} => npcStore' = npcStore]_vars

\* a delete failed while a message was staged and the list was not empty
C25_Witness ==
    /\ cacheEvent.e = "delete-failed"
    /\ chat.staged # <<>>
    /\ Length(chat.messages) > 0

\* C26: deleting a conversation whose key has no cached record completes
\* without error and leaves every cached record unchanged.
C26_DeleteWithoutRecord ==
    [][\A d \in pendingOps :
          (d.op = "delete" /\ d \notin pendingOps' /\ cacheOps' = cacheOps
              /\ d.key \notin DOMAIN npcStore /\ cacheEvent'.e = "deleted") =>
          npcStore' = npcStore]_vars

\* the conversation with "@b", which never had a record, was deleted while
\* the cache held the records of two other conversations
C26_Witness ==
    /\ cacheEvent = CacheEv("deleted", "@b", <<>>)
    /\ cacheOps = 2
    /\ DOMAIN npcStore = {"@a", BackendPartner}

\* the delete of the conversation was the last cache operation to complete,
\* the list is still the one its reset left, and no import is under way
AfterDelete(key) ==
    /\ cacheEvent = CacheEv("deleted", key, <<>>)
    /\ ChatKey(chat) = key
    /\ chat.messages = Coalesce(chat.thread, EmptyArr)
    /\ \A j \in pendingOps : j.op # "import"

\* C36: after handleDeleteNpcChat has completed successfully for the open
\* key K, and while no message is sent or imported, the cache holds no
\* record for K: neither a debounced write pending at delete time nor one
\* scheduled by the delete's reset of the list re-creates it.
C36_DeletedStaysDeleted ==
    [][\A key \in Keys :
          (AfterDelete(key) /\ key \notin DOMAIN npcStore /\ chat'.messages = chat.messages) =>
          key \notin DOMAIN npcStore']_vars

---------------------------------------------------------------------------
(* Claims about an import racing with the debounced write, checked under  *)
(* SpecImport                                                             *)

\* the message lists of the records the files of the model hold
ImportedLists ==
    UNION {{Prop(ImportedFromFiles[file][0].v[j], "messages") :
               j \in DOMAIN ImportedFromFiles[file][0].v} : file \in RaceFiles}

\* an import started as the last operation of the user has just completed,
\* no other import is under way, and its record for the open conversation,
\* with this list, was adopted
ImportAdopted(key, list) ==
    /\ cacheOps = MaxCacheOps
    /\ \A j \in pendingOps : j.op # "import"
    /\ cacheEvent.e = "imported"
    /\ cacheEvent.key = key
    /\ ChatKey(chat) = key
    /\ FindRecord(cacheEvent.detail, key) # Undef
    /\ Prop(FindRecord(cacheEvent.detail, key), "messages") = list
    /\ chat.messages = list

HoldsList(key, list) == key \in DOMAIN npcStore /\ Prop(npcStore[key], "messages") = list

---------------------------------------------------------------------------
(* Claims about the conversation cache, checked under SpecDm *)

\* every message of the list was written in the conversation of the key
OwnMessages(key, messages) == \A j \in DOMAIN messages : messages[j].content[1] = key

\* C17: every cache write issued under key K carries the message list of
\* conversation K, and a pending write is always one for the open
\* conversation of a mounted view: after the partner changed or the view was
\* torn down no write for the former key is pending.
C17_WritesCarryOwnConversation ==
    /\ \A j \in DOMAIN dmLog :
           dmLog[j].e = "write" => OwnMessages(dmLog[j].key, dmLog[j].messages)
    /\ \A t \in timers : dmMounted = "yes" /\ t.key = dmKey

\* the entries of the log that are not cache reads
Edits == SelectSeq(dmLog, LAMBDA ev : ev.e # "load")

\* C18: every cache write directly follows the last change of a burst, at
\* least 200 ms after it, and carries that change's key and list, so the
\* changes before it that came less than 200 ms apart caused no write; at
\* most one scheduled write is pending at any moment; and while the
\* conversation of the last change is open its write is pending and the
\* clock is less than one step past its due time.
C18_DebouncedSingleWrite ==
    /\ Cardinality(timers) <= 1
    /\ \A i \in DOMAIN Edits :
           Edits[i].e = "write" =>
               /\ i > 1
               /\ Edits[i - 1].e = "change"
               /\ Edits[i - 1].key = Edits[i].key
               /\ Edits[i - 1].messages = Edits[i].messages
               /\ Edits[i].at >= Edits[i - 1].at + DebounceMs
    /\ (Edits # <<>> /\ Edits[Len(Edits)].e = "change" /\ dmMounted = "yes"
            /\ dmKey = Edits[Len(Edits)].key) =>
           /\ timers = {[key |-> dmKey, messages |-> Edits[Len(Edits)].messages,
                          due |-> Edits[Len(Edits)].at + DebounceMs]}
           /\ now < Edits[Len(Edits)].at + DebounceMs + TickMs

\* two changes of one conversation less than 200 ms apart, with different
\* lists, were followed by one write, of the second list
C18_Witness ==
    \E i \in DOMAIN Edits :
        /\ i >= 3
        /\ Edits[i].e = "write"
        /\ Edits[i - 1].e = "change" /\ Edits[i - 2].e = "change"
        /\ Edits[i - 2].key = Edits[i].key
        /\ Edits[i - 1].at - Edits[i - 2].at < DebounceMs
        /\ Edits[i - 1].messages # Edits[i - 2].messages
        /\ Edits[i].messages = Edits[i - 1].messages
        /\ cache[Edits[i].key] = Edits[i].messages

\* C19: when a cache read of an open conversation completes without being
\* cancelled, the active list is the cached record's messages if the record
\* is strictly longer than the backend's thread and the backend's thread
\* otherwise; its length is max(m, n).
C19_AdoptsLonger ==
    \A j \in DOMAIN dmLog :
        dmLog[j].e = "load" =>
            dmLog[j].messages =
                IF Len(dmLog[j].record) > Len(dmThread.messages)
                THEN dmLog[j].record ELSE dmThread.messages

\* the message the viewer sends in conversation key as the n-th operation
Sent(key, n) == Message(ViewerHandle, key, n)
Holds(messages, m) == \E j \in DOMAIN messages : messages[j] = m

\* C31: with the debounce timer and the cache transactions fair, every
\* message a local send appended to the active list while conversation K
\* is open is eventually in the cache record of K, also when a refresh
\* comes within the debounce window after the send.
C31_SentReachesCache ==
    \A key \in Keys : \A n \in 1..MaxDmOps :
        (dmMounted = "yes" /\ dmKey = key /\ Holds(dmMessages, Sent(key, n)))
            ~> Holds(cache[key], Sent(key, n))

\* C35: without a delete and without an import the cached record of a
\* conversation never loses messages: in every interleaving of refreshes,
\* conversation changes, cache reads and debounced writes the number of
\* messages stored under a key never decreases.
C35_RecordNeverShrinks ==
    [][\A key \in Keys : Len(cache'[key]) >= Len(cache[key])]_vars

---------------------------------------------------------------------------
(* Claims about the profile handlers, checked under SpecProfile *)

\* C20: every handler that changes the working copy (here the signature
\* edit, new post, delete post and follow toggle) invokes updateStatData,
\* and its change is still present in the working copy after the next
\* refreshData that read a model.
C20_EditsRoutedThroughWriter ==
    lastEdit.handler # "none" =>
        /\ lastEdit.writer
        /\ lastEdit.refreshed =>
               <<userPosts, userSignature, profileFollowed, profileFollowerCount>> = lastEdit.kept

---------------------------------------------------------------------------
(* Claims about the writer and the handlers, checked under Spec *)

\* the executions of updateStatData a state shows: those pending at an await
\* and the one that completed in the last step
Executions == {lastCall} \cup {calls[j] : j \in DOMAIN calls}

\* the posts of a view in a root document
ViewPosts(root, view) == Get(root, <<K(view), K("posts")>>)

\* the canonical feed post an execution's handler acted on, and the same post
\* in the working copy its optimistic update left
CanonicalPost(c) == At(ViewPosts(data, "echo_chamber_feed"), c.from.postIndex)
OptimisticPost(c) == At(c.from.optimistic, c.from.postIndex)

\* the execution was started by a handler of the feed view
OnFeed(c) ==
    \/ c.mut.kind \in {"send", "deleteComment", "deleteReply"}
    \/ c.mut.kind = "like" /\ c.mut.path[1] = K("echo_chamber_feed")

\* the execution wrote its mutation and its refresh() re-read the store
PersistedAndRefreshed(c) ==
    /\ c.pc = "done"
    /\ c.wrote # Undef
    /\ c.log[Len(c.log)] = "refresh"
    /\ c.read

\* C1 as stated: for every store layout the reader accepts, after a feed
\* handler's updateStatData has written successfully and refreshData has
\* re-read the store, the canonical post equals the optimistic working copy's
\* post.  Stated for the first handler invocation of a behaviour, with no
\* other execution pending.
C1_DurableAcrossRefresh ==
    (ops = 1 /\ calls = <<>> /\ OnFeed(lastCall) /\ PersistedAndRefreshed(lastCall)) =>
        CanonicalPost(lastCall) = OptimisticPost(lastCall)

\* the stats of the posts of a sequence: every likes and comments counter
\* that is a number
Counters(posts) ==
    IF posts.t # "arr" THEN {}
    ELSE {Get(At(posts, j), <<K("stats"), K(field)>>) :
            j \in 0..(Length(posts) - 1), field \in {"likes", "comments"}}

NonNegative(posts) == \A n \in Counters(posts) : n.t = "num" => n.v >= 0

\* the stat_data a document of the message scope holds
StatDataOf(doc) == Get(doc, <<K("stat_data")>>)

\* C3: every likes and comments counter is >= 0 in the working copies, in the
\* canonical model and in the stat_data persisted or about to be, after any
\* sequence of handler invocations; a like toggle or a deletion that would
\* go below zero leaves zero in the working copy.
C3_CountersNonNegative ==
    /\ NonNegative(feedPosts) /\ NonNegative(userPosts)
    /\ \A view \in Views :
        /\ NonNegative(ViewPosts(data, view))
        /\ NonNegative(ViewPosts(StatDataOf(store["message"]), view))
        /\ \A c \in Executions :
            /\ NonNegative(ViewPosts(StatDataOf(c.next), view))
            /\ NonNegative(ViewPosts(StatDataOf(c.wrote), view))
    /\ \A c \in Executions :
        LET before == Prop(At(c.from.before, c.from.postIndex), "stats")
            after == Prop(OptimisticPost(c), "stats")
        IN /\ (c.mut.kind = "like" /\ OnFeed(c) /\ Prop(before, "likes") = Num(0)
                  /\ Truthy(Prop(before, "is_liked_by_viewer")))
                 => Prop(after, "likes") = Num(0)
           /\ (c.mut.kind = "deleteComment"
                  /\ NumberOr0(Prop(before, "comments")) < c.mut.removedCount)
                 => Prop(after, "comments") = Num(0)

\* a comment with a reply was deleted from a post counting no comments, the
\* counter stayed at zero, in the working copy and in the stat_data written
C3_Witness ==
    /\ lastCall.pc = "done"
    /\ lastCall.mut.kind = "deleteComment"
    /\ lastCall.mut.removedCount = 2
    /\ Get(At(lastCall.from.before, 0), <<K("stats"), K("comments")>>) = Num(0)
    /\ Get(OptimisticPost(lastCall), <<K("stats"), K("comments")>>) = Num(0)
    /\ Get(lastCall.wrote, <<K("stat_data")>> \o CommentsCountPath(0)) = Num(0)

\* every "refresh" of a log directly follows a successful replace call of
\* the same log
RefreshFollowsWrite(log) ==
    \A j \in DOMAIN log :
        log[j] = "refresh" => (j > 1 /\ log[j - 1] \in {"mvu_write", "gen_write"})

\* C9: in every execution of updateStatData refresh is invoked only right
\* after a replace call of this execution succeeded; an execution none of
\* whose writes succeeded never invokes refresh.
C9_RefreshOnlyAfterWrite ==
    \A c \in Executions :
        /\ RefreshFollowsWrite(c.log)
        /\ (\A j \in DOMAIN c.log : c.log[j] \notin {"mvu_write", "gen_write"})
              => (\A j \in DOMAIN c.log : c.log[j] # "refresh")
        /\ c.wrote = Undef => ~c.read

\* an execution whose structured write failed, with no refresh after it,
\* then wrote through the generic backend and refreshed once
C9_Witness ==
    /\ lastCall.pc = "done"
    /\ lastCall.log = <<"mvu_read", "mvu_write_fail", "gen_read", "gen_write", "refresh">>
    /\ lastCall.wrote = store["message"]

\* the events of a log after the structured backend's failure
AfterMvuFailure(log) ==
    LET j == CHOOSE q \in DOMAIN log : log[q] \in {"mvu_read_fail", "mvu_write_fail"}
    IN SubSeq(log, j + 1, Len(log))

MvuFailed(c) == \E j \in DOMAIN c.log : c.log[j] \in {"mvu_read_fail", "mvu_write_fail"}

\* C10 as stated: when the structured backend's read or write fails, the
\* same execution neither reads nor writes the generic backend, persists
\* nothing and does not invoke refresh.
C10_NoFallback ==
    \A c \in Executions :
        (c.pc = "done" /\ MvuFailed(c)) => (AfterMvuFailure(c.log) = <<>> /\ c.wrote = Undef)

\* C10 amended: after the structured backend's read or write fails, the same
\* execution goes on to the generic backend when the host has one: it reads
\* it, writes the mutated document to it and invokes refresh after that
\* write; nothing is persisted and refresh is not invoked only when the
\* generic backend is absent or its read or write fails too.
C10_FallsBackToGeneric ==
    \A c \in Executions :
        (c.pc = "done" /\ MvuFailed(c)) =>
            IF ~env.gen THEN AfterMvuFailure(c.log) = <<>> /\ c.wrote = Undef
            ELSE \/ /\ AfterMvuFailure(c.log) \in {<<"gen_read_fail">>, <<"gen_read", "gen_write_fail">>}
                    /\ c.wrote = Undef
                 \/ /\ AfterMvuFailure(c.log) \in
                            {<<"gen_read", "gen_write", "refresh">>,
                             <<"gen_read", "gen_write", "refresh", "refresh_raised">>}
                    /\ c.wrote = store["message"]
                    /\ Get(c.wrote, <<K("stat_data")>>) # Undef

\* the structured backend's read failed and the execution persisted the
\* mutation through the generic backend and refreshed
C10_Witness ==
    /\ lastCall.pc = "done"
    /\ lastCall.log = <<"mvu_read_fail", "gen_read", "gen_write", "refresh">>
    /\ lastCall.wrote = store["message"]
    /\ lastCall.mut.kind = "like"

\* a write to the message scope succeeded in the execution
WriteFailed(c) == \E j \in DOMAIN c.log : c.log[j] \in {"mvu_write_fail", "gen_write_fail"}

\* C11: updateStatData never mutates the document the backend's read
\* returned: a step changes the store only when a replace call of the
\* execution completing in it committed, and then the message scope holds
\* the document that call wrote; a read, a pending write and a failed write
\* leave every scope as it was.
C11_LiveDocumentUntouched ==
    [][store' # store =>
          /\ lastCall'.wrote # Undef
          /\ store' = [store EXCEPT !["message"] = lastCall'.wrote]]_vars

\* an execution read the document, its write failed, nothing was written,
\* and its mutation applied to the stored document would have changed it
C11_Witness ==
    /\ lastCall.pc = "done"
    /\ WriteFailed(lastCall)
    /\ lastCall.wrote = Undef
    /\ store \in Stores
    /\ updateWithVars(store["message"], lastCall.mut) # store["message"]

\* C12: the promise returned by updateStatData never rejects, whatever step
\* fails, resolving the current message id included.
C12_NeverRejects == \A c \in Executions : ~c.rejected

\* the number of entries of a log that are among the given events
RECURSIVE Count(_, _)
Count(log, events) ==
    IF log = <<>> THEN 0
    ELSE (IF Head(log) \in events THEN 1 ELSE 0) + Count(Tail(log), events)

\* C32: when executions of updateStatData overlap, none writes back a
\* document that was read before another execution's write: the document a
\* successful replace call commits is the mutation applied to the backend
\* document as it is when the call commits, so the backend holds the effect
\* of every mutation once all have completed.
C32_NoLostUpdate ==
    [][(lastCall'.pc = "done" /\ lastCall'.wrote # Undef /\ store' # store) =>
          lastCall'.wrote = updateWithVars(store["message"], lastCall'.mut)]_vars

\* C34: in one execution of updateStatData at most one replace call
\* succeeds and refresh is invoked at most once; in particular a refresh
\* that raises after the structured backend's write is not followed by a
\* write to the generic backend.
C34_SingleCommit ==
    \A c \in Executions :
        /\ Count(c.log, {"mvu_write", "gen_write"}) <= 1
        /\ Count(c.log, {"refresh"}) <= 1

\* the comments the written document holds under the alternate field name
\* for the post of the execution
AlternateComments(c) ==
    Get(c.wrote, <<K("stat_data")>> \o BasePath(c.from.postIndex) \o <<K("People_comments")>>)

\* the execution was started on a post whose comments the store holds only
\* under People_comments, by a new top-level comment or by the deletion of
\* a comment
OnAlternatePost(c) ==
    /\ \/ c.mut.kind = "send" /\ c.mut.target = -1
       \/ c.mut.kind = "deleteComment"
    /\ AlternateComments(c).t = "arr"
    /\ Prop(At(c.from.before, c.from.postIndex), "people_comments") = AlternateComments(c)

\* C33: for a post whose stored comments exist only under People_comments,
\* a new top-level comment or the deletion of a comment, persisted and
\* followed by the refresh, leaves a canonical people_comments that holds
\* every stored comment not deleted, followed by the new comment.
C33_AlternateCommentsKept ==
    (ops = 1 /\ calls = <<>> /\ PersistedAndRefreshed(lastCall) /\ OnAlternatePost(lastCall)) =>
        Prop(CanonicalPost(lastCall), "people_comments") =
            IF lastCall.mut.kind = "send"
            THEN Arr(Append(AlternateComments(lastCall).v, lastCall.mut.newComment))
            ELSE FilterOut(AlternateComments(lastCall), lastCall.mut.commentIndex)

====
